---- MODULE Spec2Model ----
(***************************************************************************)
(* A model of eluv-io/log-go: the hierarchical registry of named loggers   *)
(* (logRoot), the atomically replaceable logger snapshot behind every Log  *)
(* handle, level-scoped emission, and the throttling decorator.            *)
(*                                                                         *)
(* Strings that the code takes apart (logger paths and names) are tuples   *)
(* of one-character strings, so that strings.Index and strings.HasPrefix   *)
(* are computed as the code computes them.                                 *)
(***************************************************************************)
EXTENDS Integers, Sequences, FiniteSets, TLC

VARIABLES
    mutex,      \* logRoot.mutex: "free" or the thread that holds it
    named,      \* logRoot.named: path -> Log (a function on the registered paths)
    def,        \* logRoot.def: the root Log
    defConfig,  \* logRoot.defConfig: pointer to a caller supplied Config
    cfgs,       \* the caller supplied Config objects, by pointer
    lw,         \* Log.lw of every Log ever created: Log -> logger snapshot
    sinks,      \* the apex handlers ever built: handler -> [kind, file]
    ljacks,     \* the lumberjack writers ever built: writer -> [file, closed]
    th,         \* per thread: position in the running operation and its locals
    ev,         \* what the last step returned or handed to a backend sink
    nDefault,   \* number of SetDefault calls that replaced the default config
    nLevel,     \* number of SetLevel / SetXxx calls made with a valid level
    est,        \* per Log, the level its creation or the last returned SetLevel /
                \* SetDefault call that replaced its snapshot was to give it
    tl,         \* the throttleFactory and the throttledLog of its one key: the
                \* locks fmu and mu, the decorators made (inst), and logger,
                \* period, count and last of the cached one
    now,        \* utc.Now(), in milliseconds
    pMetrics,   \* pMetrics: the metricsWrapper stored, which holds the observer
    tcall       \* the calls decided on the decorator: their number, the calls
                \* dropped since and the time of the last emitted one, whether
                \* they follow the schedule of ExampleLog_throttle, and the
                \* attempts emitted on that schedule; the calls made at an
                \* enabled level, the entries that reached the handler and
                \* the sum of the suppressed values these carried

regVars == <<mutex, named, def, defConfig, cfgs, lw, sinks, ljacks, th, ev, nDefault, nLevel, est>>
objVars == <<mutex, named, def, defConfig, cfgs, lw, sinks, ljacks, nDefault, nLevel, est>>
thrVars == <<tl, now, tcall>>
metVars == <<pMetrics>>
vars == <<mutex, named, def, defConfig, cfgs, lw, sinks, ljacks, th, ev, nDefault, nLevel, est,
          tl, now, tcall, pMetrics>>

-----------------------------------------------------------------------------
(* Bounds *)

Threads == {"t1", "t2"}

\* SetDefault calls that replace the default config, per behaviour
MaxSetDefault == 2

\* SetLevel / SetXxx calls with a valid level, per behaviour
MaxSetLevel == 1
\* SetDefault calls that replace the config, in the SetLevel specification
MaxLevelDefault == 1
\* SetDefault calls in the file specification: to files and away from them
MaxFileDefault == 2
\* Logs the program makes with New
MaxNew == 1
\* SetDefault calls that install a config in any specification: enough for a
\* Config object to be installed a second time after another one
MaxInstalls == 3

\* throttled calls at an enabled level, per behaviour: those of the example
MaxCalls == 24
\* the clock's last value, in milliseconds
MaxNowMs == 240
\* the same two, once calls and clock have left the example's schedule
MaxFreeCalls == 3
MaxFreeNowMs == 120

\* ExampleLog_throttle: the period, the clock's step after each call and the
\* number of calls
PeriodMs == 100
StepMs == 10
ExampleCalls == 24

\* throttleFactory.get: the period when no duration is given, in milliseconds
DefaultPeriodMs == 5000

-----------------------------------------------------------------------------
(* Levels: apex.TraceLevel < DebugLevel < InfoLevel < WarnLevel < ErrorLevel *)
(* < FatalLevel; a level is its position in this order.                     *)

LevelNames == <<"trace", "debug", "info", "warn", "error", "fatal">>

Levels == DOMAIN LevelNames

LevelOf(s) == CHOOSE i \in Levels : LevelNames[i] = s

TraceLevel == LevelOf("trace")
DebugLevel == LevelOf("debug")
InfoLevel  == LevelOf("info")
WarnLevel  == LevelOf("warn")
ErrorLevel == LevelOf("error")
FatalLevel == LevelOf("fatal")

\* a parser that takes any other string for the lowest level
ParseLevelLowest(s) ==
    [err |-> FALSE,
     level |-> IF \E i \in Levels : LevelNames[i] = s THEN LevelOf(s) ELSE 1]

\* a parser that takes any other string for info
ParseLevelLenient(s) ==
    [err |-> FALSE,
     level |-> IF \E i \in Levels : LevelNames[i] = s THEN LevelOf(s) ELSE InfoLevel]

\* apex.ParseLevel: the level of a level name, an error for any other string
ParseLevel(s) ==
    IF \E i \in Levels : LevelNames[i] = s
    THEN [err |-> FALSE, level |-> LevelOf(s)]
    ELSE [err |-> TRUE, level |-> InfoLevel]

\* apex.Level.String
LevelString(l) == LevelNames[l]

-----------------------------------------------------------------------------
(* Strings as tuples of characters *)

Slash == <<"/">>
Empty == <<>>

PathA  == <<"/", "a">>
PathAB == <<"/", "a", "/", "b">>
PathAx == <<"/", "a", "b">>
PathC  == <<"/", "c">>

\* the paths handed to Get: "", "/", a path without leading slash, named paths
GetPaths == {Empty, Slash, <<"a">>, PathA, PathAB, PathAx, PathC}

\* strings.HasPrefix(s, prefix)
HasPrefix(s, prefix) ==
    /\ Len(prefix) <= Len(s)
    /\ SubSeq(s, 1, Len(prefix)) = prefix

\* strings.Index(path[idx:], "/"): offset of the first "/" at or after the
\* (0-based) position idx, -1 if there is none
IndexSlash(path, idx) ==
    LET hits == {i \in 0..(Len(path) - idx - 1) : path[idx + i + 1] = "/"}
    IN IF hits = {} THEN -1
       ELSE CHOOSE i \in hits : \A j \in hits : i <= j

\* byte order of the characters in use, as sort.Strings compares them
CharRank(c) == CASE c = "/" -> 1 [] c = "a" -> 2 [] c = "b" -> 3 [] c = "c" -> 4

RECURSIVE StrLess(_, _)
StrLess(a, b) ==
    IF a = <<>> THEN b # <<>>
    ELSE IF b = <<>> THEN FALSE
    ELSE IF Head(a) = Head(b) THEN StrLess(Tail(a), Tail(b))
    ELSE CharRank(Head(a)) < CharRank(Head(b))

RECURSIVE sortedKeys(_)
sortedKeys(S) ==
    IF S = {} THEN <<>>
    ELSE LET m == CHOOSE x \in S : \A y \in S \ {x} : StrLess(x, y)
         IN <<m>> \o sortedKeys(S \ {m})

-----------------------------------------------------------------------------
(* Config *)

NilFile == [nil |-> TRUE, Filename |-> ""]
FileOf(name) == [nil |-> FALSE, Filename |-> name]

NoNamed == [p \in {} |-> 0]

\* a Config; pointer fields are "nil", "true" or "false"
Config(level, handler, file, gid, caller, namedCfg) ==
    [Level |-> level, Handler |-> handler, File |-> file,
     GoRoutineID |-> gid, Caller |-> caller, Named |-> namedCfg]

\* an entry of Config.Named (nested Named are never consulted)
Entry(level, handler, file, gid, caller) ==
    Config(level, handler, file, gid, caller, NoNamed)

defaultConfig == Config("info", "text", NilFile, "nil", "nil", NoNamed)

\* The Config objects callers pass to SetDefault. 1 is the package's own
\* default; 2 and 3 set different fields at different depths; 4 has an entry
\* for the path "/"; 5 writes to files, with an entry that names another
\* file and one that changes the handler only; 6 has file settings with an
\* empty Filename (as Stdout has) where 7 has none.
UserConfigs ==
    <<defaultConfig,
      Config("normal", "json", NilFile, "true", "nil",
             (PathA :> Entry("debug", "", NilFile, "nil", "nil"))
             @@ (PathC :> Entry("warn", "text", FileOf("c.log"), "nil", "true"))),
      Config("warn", "console", NilFile, "nil", "nil",
             (PathAB :> Entry("trace", "", NilFile, "false", "nil"))
             @@ (PathC :> Entry("", "json", NilFile, "nil", "nil"))),
      Config("debug", "text", NilFile, "nil", "nil",
             (Slash :> Entry("warn", "", NilFile, "nil", "nil"))),
      Config("info", "text", FileOf("r.log"), "nil", "nil",
             (PathA :> Entry("", "", FileOf("a.log"), "nil", "nil"))
             @@ (PathC :> Entry("", "json", NilFile, "nil", "nil"))),
      Config("info", "text", FileOf(""), "nil", "nil",
             (PathA :> Entry("debug", "", NilFile, "nil", "nil"))
             @@ (PathC :> Entry("", "json", FileOf(""), "nil", "nil"))),
      Config("info", "text", NilFile, "nil", "nil",
             (PathA :> Entry("debug", "", NilFile, "nil", "nil"))
             @@ (PathC :> Entry("", "json", NilFile, "nil", "nil")))>>

\* the configs of the registry specification
CfgIds == {1, 2, 3}

\* a merge that replaces the target by the entry, set fields or not
mergeConfigReplacing(c, target) == [c EXCEPT !.Named = target.Named]

\* mergeConfig(c, target)
mergeConfig(c, target) ==
    [Level       |-> IF c.Level # "" THEN c.Level ELSE target.Level,
     Handler     |-> IF c.Handler # "" THEN c.Handler ELSE target.Handler,
     File        |-> IF ~c.File.nil THEN c.File ELSE target.File,
     GoRoutineID |-> IF c.GoRoutineID # "nil" THEN c.GoRoutineID ELSE target.GoRoutineID,
     Caller      |-> IF c.Caller # "nil" THEN c.Caller ELSE target.Caller,
     Named       |-> target.Named]

\* defaultFields(c, path): the "logger" field, absent for the console backend
\* and for the memory backend at a level other than "debug"
defaultFields(c, path) ==
    IF c.Handler = "console" THEN [hasLogger |-> FALSE, logger |-> Empty]
    ELSE IF c.Handler = "memory" /\ c.Level # "debug"
         THEN [hasLogger |-> FALSE, logger |-> Empty]
    ELSE [hasLogger |-> TRUE, logger |-> path]

-----------------------------------------------------------------------------
(* Objects. A Log is named <<path it was created for, n>>, the n-th Log      *)
(* created for that path (root Logs, which New creates, have the path "");  *)
(* a handler or a lumberjack writer is named after the Log whose snapshot   *)
(* it was built for and the number of default configs installed before.     *)

NoLog == <<Empty, 0>>

NoSink == [log |-> NoLog, gen |-> 0]

\* the next Log created for a path
NewLogId(logs, p) == <<p, Cardinality({l \in logs : l[1] = p}) + 1>>

\* a snapshot: config is the Config it points to when that Config was built
\* for this Log (cfgRef = 0), cfgRef the caller's Config object otherwise
NoSnap ==
    [level |-> 0, fields |-> [hasLogger |-> FALSE, logger |-> Empty], name |-> Empty,
     config |-> defaultConfig, cfgRef |-> 0, handler |-> NoSink, lumberjack |-> NoSink]

\* logger.config, dereferenced
ConfigOf(snap, heap) == IF snap.cfgRef = 0 THEN snap.config ELSE heap[snap.cfgRef]

\* the handler kinds newLog builds; every other kind gives the json handler
HandlerKind(h) == IF h \in {"text", "raw", "console", "discard", "memory"} THEN h ELSE "json"

\* newLog(c, fields, parent): the snapshot of the new Log, with the handler
\* and writer tables after it. cref is the caller's Config object c points to
\* (0 when c is a copy made for this Log); par is the parent's snapshot when
\* hasPar; sid names the handler and the writer, should newLog build them.
\* inst and files count its calls of metrics().InstanceCreated() and of
\* metrics().FileCreated().
newLog(c, cref, fields, hasPar, par, sid, w) ==
    LET parsed == ParseLevel(c.Level)
        level  == IF parsed.err THEN InfoLevel ELSE parsed.level
        file   == IF ~c.File.nil /\ c.File.Filename = "" THEN NilFile ELSE c.File
        parCfg == ConfigOf(par, w.cfgs)
        reuse  == hasPar /\ parCfg.Handler = c.Handler /\ parCfg.File = file
        mkFile == ~reuse /\ ~file.nil
        ljs    == IF mkFile
                  THEN (sid :> [file |-> file.Filename, closed |-> FALSE]) @@ w.ljacks
                  ELSE w.ljacks
        sks    == IF reuse THEN w.sinks
                  ELSE (sid :> [kind |-> HandlerKind(c.Handler),
                                file |-> IF c.Handler = "discard" \/ c.Handler = "memory"
                                         THEN NilFile ELSE file]) @@ w.sinks
        snap   == [level |-> level, fields |-> fields,
                   name |-> IF fields.hasLogger THEN fields.logger ELSE Empty,
                   config |-> c, cfgRef |-> cref,
                   handler |-> IF reuse THEN par.handler ELSE sid,
                   lumberjack |-> IF mkFile THEN sid ELSE NoSink]
    IN [snap |-> snap, sinks |-> sks, ljacks |-> ljs,
        inst |-> IF reuse THEN 0 ELSE 1, files |-> IF mkFile THEN 1 ELSE 0]

\* New(c) for the caller's Config object cref
New(cref, sid, w) ==
    newLog(w.cfgs[cref], cref, defaultFields(w.cfgs[cref], Slash), FALSE, NoSnap, sid, w)

-----------------------------------------------------------------------------
(* What a path resolves to in a default config, stated on the config alone *)

\* the keys of c.Named that are p or an ancestor of p in the hierarchy
EntriesFor(c, p) ==
    {q \in DOMAIN c.Named :
        \/ q = p
        \/ HasPrefix(p, q) /\ Len(q) < Len(p) /\ p[Len(q) + 1] = "/"}

Longest(S) == CHOOSE q \in S : \A r \in S : Len(r) <= Len(q)

\* the value of one field for p: that of the nearest entry that sets it, the
\* default config's own when no entry does
ResolvedLevelString(c, p) ==
    LET S == {q \in EntriesFor(c, p) : c.Named[q].Level # ""}
    IN IF S = {} THEN c.Level ELSE c.Named[Longest(S)].Level

ResolvedHandler(c, p) ==
    LET S == {q \in EntriesFor(c, p) : c.Named[q].Handler # ""}
    IN IF S = {} THEN c.Handler ELSE c.Named[Longest(S)].Handler

ResolvedFile(c, p) ==
    LET S == {q \in EntriesFor(c, p) : ~c.Named[q].File.nil}
    IN IF S = {} THEN c.File ELSE c.Named[Longest(S)].File

ResolvedGoRoutineID(c, p) ==
    LET S == {q \in EntriesFor(c, p) : c.Named[q].GoRoutineID # "nil"}
    IN IF S = {} THEN c.GoRoutineID ELSE c.Named[Longest(S)].GoRoutineID

ResolvedCaller(c, p) ==
    LET S == {q \in EntriesFor(c, p) : c.Named[q].Caller # "nil"}
    IN IF S = {} THEN c.Caller ELSE c.Named[Longest(S)].Caller

\* the level threshold of a level string: info for a string that is no level
ThresholdOf(s) == IF s \in {LevelNames[i] : i \in Levels} THEN LevelOf(s) ELSE InfoLevel

ResolvedLevel(c, p) == ThresholdOf(ResolvedLevelString(c, p))

-----------------------------------------------------------------------------
(* logRoot.Get *)

\* sync.Mutex.Lock returns only when no thread holds the mutex
CanLock == mutex = "free"

\* Get: a path that does not start with "/" gets one
Normalize(path) == IF path # Empty /\ Head(path) # "/" THEN Slash \o path ELSE path

\* the tables newLog reads and extends, taken from a walk state
World(g) == [cfgs |-> cfgs, sinks |-> g.sinks, ljacks |-> g.ljacks]

\* newLog for path p with config cc below the Log g.log, and r.named[p] = log
Register(g, p, cc) ==
    LET id == NewLogId(DOMAIN g.lw, p)
        r  == newLog(cc, 0, defaultFields(cc, p), TRUE, g.lw[g.log],
                     [log |-> id, gen |-> nDefault], World(g))
    IN [g EXCEPT !.lw = (id :> r.snap) @@ g.lw,
                 !.named = (p :> id) @@ [q \in DOMAIN g.named \ {p} |-> g.named[q]],
                 !.log = id, !.logPath = p,
                 !.sinks = r.sinks, !.ljacks = r.ljacks,
                 !.inst = g.inst + r.inst, !.files = g.files + r.files]

\* the loop of Get over the prefixes of path; g holds idx, log, logPath, conf
\* and the tables the loop changes
RECURSIVE GetWalk(_, _)
GetWalk(path, g) ==
    IF g.idx >= Len(path) THEN g
    ELSE LET idx1 == g.idx + 1
             i    == IndexSlash(path, idx1)
             idx2 == IF i # -1 THEN idx1 + i ELSE Len(path)
             p    == SubSeq(path, 1, idx2)
             logFound == p \in DOMAIN g.named
             g1 == IF logFound
                   THEN [g EXCEPT !.log = g.named[p], !.logPath = p,
                                  !.conf = ConfigOf(g.lw[g.named[p]], cfgs)]
                   ELSE g
             dc == cfgs[defConfig]
             g2 == IF p \in DOMAIN dc.Named /\ ~logFound
                   THEN LET cc == mergeConfig(dc.Named[p], g1.conf)
                        IN Register([g1 EXCEPT !.conf = cc], p, cc)
                   ELSE g1
         IN GetWalk(path, [g2 EXCEPT !.idx = idx2])

\* a Get that creates a Log for the path whatever the walk ended on
GetCreatedUnchecked(path) ==
    LET g0 == [idx |-> 0, log |-> def, logPath |-> Slash, conf |-> cfgs[defConfig],
               named |-> named, lw |-> lw, sinks |-> sinks, ljacks |-> ljacks,
               inst |-> 0, files |-> 0]
        g  == GetWalk(path, g0)
    IN Register(g, path, g.conf)

\* the part of Get that creates the logger hierarchy for a path
GetCreated(path) ==
    LET g0 == [idx |-> 0, log |-> def, logPath |-> Slash, conf |-> cfgs[defConfig],
               named |-> named, lw |-> lw, sinks |-> sinks, ljacks |-> ljacks,
               inst |-> 0, files |-> 0]
        g  == GetWalk(path, g0)
    IN IF g.logPath = path THEN g ELSE Register(g, path, g.conf)

\* a call of a method of the Metrics observer: the observer called, the
\* method and the logger name passed; NoCall when the step made none
NoCall == [obs |-> "none", method |-> "none", logger |-> Empty]

\* the observer in place when a log call started, for a step that ends one
NoStart == "none"

\* the fields throttle appends to those of the call: none, or suppressed and
\* throttle_period
NoKv == [has |-> FALSE, suppressed |-> 0, period |-> 0]

Idle == [pc |-> "idle", path |-> Empty, log |-> NoLog, level |-> 0, name |-> Empty,
         snap |-> NoSnap, gid |-> "nil", caller |-> "nil", dirty |-> FALSE,
         kv |-> NoKv, cnt |-> 0, dec |-> "none", period |-> 0, guarded |-> TRUE,
         arg |-> "", start |-> NoStart, todo |-> <<>>, closes |-> <<>>, errs |-> {},
         owned |-> {}]

\* for CloseLogFiles the writers it called Close on, in order (closes), and
\* those whose Close returned an error (errs);
\* the last step's outcome: the Log a Get returned, the answer of IsXxx, or
\* whether an entry went to a handler (ok), at which threshold and to which;
\* for throttleFactory.get the decorator returned (thr), whether it was made
\* by this call (ok) and the period asked for (kv.period); for Get and
\* SetDefault the number of calls of InstanceCreated (inst) and of
\* FileCreated (files) the step made
NoEv == [kind |-> "none", path |-> Empty, log |-> NoLog, level |-> 0,
         ok |-> FALSE, thr |-> 0, sink |-> NoSink, gid |-> FALSE, caller |-> FALSE,
         kv |-> NoKv, met |-> NoCall, start |-> NoStart, closes |-> <<>>, errs |-> {},
         inst |-> 0, files |-> 0]

\* Get, up to the lookup in the named map: returns the root Log for "", the
\* registered Log when there is one, and goes on to create one otherwise
GetLookup(t, path0) ==
    LET path == Normalize(path0) IN
    /\ th[t].pc = "idle"
    /\ CanLock
    /\ IF path = Empty
       THEN /\ ev' = [NoEv EXCEPT !.kind = "get", !.path = path0, !.log = def]
            /\ UNCHANGED <<mutex, th>>
       ELSE IF path \in DOMAIN named
       THEN /\ ev' = [NoEv EXCEPT !.kind = "get", !.path = path0, !.log = named[path]]
            /\ UNCHANGED <<mutex, th>>
       ELSE /\ mutex' = t
            /\ th' = [th EXCEPT ![t] = [Idle EXCEPT !.pc = "get_create", !.path = path]]
            /\ ev' = NoEv
    /\ UNCHANGED <<named, def, defConfig, cfgs, lw, sinks, ljacks, nDefault, nLevel, est>>
    /\ UNCHANGED thrVars
    /\ UNCHANGED metVars

\* Root(): Get("/")
Root(t) == GetLookup(t, Slash)

\* Get, from the lookup's miss to the return
GetCreate(t) ==
    /\ th[t].pc = "get_create"
    /\ LET g == GetCreated(th[t].path) IN
       /\ named' = g.named
       /\ lw' = g.lw
       /\ sinks' = g.sinks
       /\ ljacks' = g.ljacks
       /\ est' = [l \in DOMAIN g.lw |-> IF l \in DOMAIN lw THEN est[l] ELSE g.lw[l].level]
       /\ ev' = [NoEv EXCEPT !.kind = "get", !.path = th[t].path, !.log = g.log,
                             !.ok = TRUE, !.inst = g.inst, !.files = g.files]
    /\ mutex' = "free"
    /\ th' = [th EXCEPT ![t] = Idle]
    /\ UNCHANGED <<def, defConfig, cfgs, nDefault, nLevel>>
    /\ UNCHANGED thrVars
    /\ UNCHANGED metVars

-----------------------------------------------------------------------------
(* logRoot.setDefault *)

\* a comparison that never finds the two configs equal
sameConfigNever(c) == FALSE

\* logRoot.sameConfig: reflect.DeepEqual of the two Config objects
sameConfig(c) == cfgs[defConfig] = cfgs[c]

\* SetDefault, up to the replacement of the root Log and the default config
SetDefaultBegin(t, c) ==
    /\ th[t].pc = "idle"
    /\ CanLock
    /\ IF sameConfig(c)
       THEN /\ ev' = [NoEv EXCEPT !.kind = "setdefault"]
            /\ UNCHANGED <<mutex, def, defConfig, lw, sinks, ljacks, th, est>>
       ELSE /\ nDefault < MaxInstalls
            /\ LET id == NewLogId(DOMAIN lw, Empty)
                   r  == New(c, [log |-> id, gen |-> nDefault + 1],
                             [cfgs |-> cfgs, sinks |-> sinks, ljacks |-> ljacks])
               IN /\ lw' = (id :> r.snap) @@ lw
                  /\ sinks' = r.sinks
                  /\ ljacks' = r.ljacks
                  /\ def' = id
                  /\ est' = (id :> ThresholdOf(cfgs[c].Level)) @@ est
            /\ defConfig' = c
            /\ mutex' = t
            /\ th' = [th EXCEPT ![t] = [Idle EXCEPT !.pc = "setdefault_update"]]
            /\ ev' = [NoEv EXCEPT !.kind = "setdefault_root",
                                  !.inst = New(c, [log |-> NewLogId(DOMAIN lw, Empty),
                                                   gen |-> nDefault + 1],
                                               [cfgs |-> cfgs, sinks |-> sinks,
                                                ljacks |-> ljacks]).inst,
                                  !.files = New(c, [log |-> NewLogId(DOMAIN lw, Empty),
                                                    gen |-> nDefault + 1],
                                                [cfgs |-> cfgs, sinks |-> sinks,
                                                 ljacks |-> ljacks]).files]
    /\ UNCHANGED <<named, cfgs, nDefault, nLevel>>
    /\ UNCHANGED thrVars
    /\ UNCHANGED metVars

\* a loop that leaves the entries of the new default config out
UpdateWalkRootOnly(path, u, rootConfig, nm) == u

\* the loop of updateNamedLoggers over the prefixes of one path:
\* u holds idx, conf and parent
RECURSIVE UpdateWalk(_, _, _, _)
UpdateWalk(path, u, rootConfig, nm) ==
    IF u.idx >= Len(path) THEN u
    ELSE LET idx1 == u.idx + 1
             i    == IndexSlash(path, idx1)
             idx2 == IF i # -1 THEN idx1 + i ELSE Len(path)
             p    == SubSeq(path, 1, idx2)
             conf == IF p \in DOMAIN rootConfig.Named
                     THEN mergeConfig(rootConfig.Named[p], u.conf)
                     ELSE u.conf
             parent == IF p # path /\ p \in DOMAIN nm THEN nm[p] ELSE u.parent
         IN UpdateWalk(path, [idx |-> idx2, conf |-> conf, parent |-> parent],
                       rootConfig, nm)

\* an update that leaves the registered Logs with the snapshots they have
updateNamedLoggersSkipped(root, nm, keys, g) == g

\* updateNamedLoggers(root, named), over the keys still to do
RECURSIVE updateNamedLoggers(_, _, _, _)
updateNamedLoggers(root, nm, keys, g) ==
    IF keys = <<>> THEN g
    ELSE LET path == Head(keys)
             log  == nm[path]
             rootConfig == ConfigOf(g.lw[root], cfgs)
             u  == UpdateWalk(path, [idx |-> 0, conf |-> rootConfig, parent |-> root],
                              rootConfig, nm)
             nl == newLog(u.conf, 0, defaultFields(u.conf, path), TRUE,
                          g.lw[u.parent], [log |-> log, gen |-> nDefault + 1], World(g))
         IN updateNamedLoggers(root, nm, Tail(keys),
                               [g EXCEPT !.lw[log] = nl.snap,
                                         !.sinks = nl.sinks, !.ljacks = nl.ljacks,
                                         !.inst = g.inst + nl.inst,
                                         !.files = g.files + nl.files])

\* SetDefault, from updateNamedLoggers to the return
SetDefaultUpdate(t) ==
    /\ th[t].pc = "setdefault_update"
    /\ LET g == updateNamedLoggers(def, named, sortedKeys(DOMAIN named),
                                   [lw |-> lw, sinks |-> sinks, ljacks |-> ljacks,
                                    inst |-> 0, files |-> 0]) IN
       /\ lw' = g.lw
       /\ sinks' = g.sinks
       /\ ljacks' = g.ljacks
       /\ ev' = [NoEv EXCEPT !.kind = "setdefault", !.ok = TRUE,
                             !.inst = g.inst, !.files = g.files]
    /\ est' = [l \in DOMAIN est |->
                IF \E p \in DOMAIN named : named[p] = l
                THEN ResolvedLevel(cfgs[defConfig],
                                   CHOOSE p \in DOMAIN named : named[p] = l)
                ELSE est[l]]
    /\ mutex' = "free"
    /\ nDefault' = nDefault + 1
    /\ th' = [x \in Threads |->
                IF x = t THEN Idle
                ELSE IF th[x].pc = "emit" /\ \E p \in DOMAIN named : named[p] = th[x].log
                     THEN [th[x] EXCEPT !.dirty = TRUE]
                     ELSE th[x]]
    /\ UNCHANGED <<named, def, defConfig, cfgs, nLevel>>
    /\ UNCHANGED thrVars
    /\ UNCHANGED metVars

\* New(c), called by the program for a Log that the registry does not hold
NewHandle(t, c) ==
    /\ th[t].pc = "idle"
    /\ Cardinality({l \in DOMAIN lw : l[1] = Empty}) <= MaxNew
    /\ LET id == NewLogId(DOMAIN lw, Empty)
           r  == New(c, [log |-> id, gen |-> nDefault],
                     [cfgs |-> cfgs, sinks |-> sinks, ljacks |-> ljacks])
       IN /\ lw' = (id :> r.snap) @@ lw
          /\ sinks' = r.sinks
          /\ ljacks' = r.ljacks
          /\ est' = (id :> r.snap.level) @@ est
          /\ ev' = [NoEv EXCEPT !.kind = "new", !.log = id, !.ok = TRUE,
                                !.inst = r.inst, !.files = r.files]
    /\ UNCHANGED <<mutex, named, def, defConfig, cfgs, nDefault, nLevel, th>>
    /\ UNCHANGED thrVars
    /\ UNCHANGED metVars

-----------------------------------------------------------------------------
(* logRoot.closeLogs *)

\* the rotation writers that the current snapshots of the root Log and of
\* the registered Logs own
OwnedWriters ==
    {lw[l].lumberjack : l \in {named[p] : p \in DOMAIN named} \cup {def}} \ {NoSink}

\* closeLog: _ = l.get().lumberjack.Close() drops the error
AfterClose(err) == "next"

\* a range that visits every Log twice
RECURSIVE LogsOfTwice(_)
LogsOfTwice(keys) ==
    IF keys = <<>> THEN <<>>
    ELSE <<named[Head(keys)], named[Head(keys)]>> \o LogsOfTwice(Tail(keys))

\* the Logs that the range over r.named visits
RECURSIVE LogsOf(_)
LogsOf(keys) == IF keys = <<>> THEN <<>> ELSE <<named[Head(keys)]>> \o LogsOf(Tail(keys))

\* CloseLogFiles up to the range over r.named; closeLogs does not take the
\* mutex
CloseLogsBegin(t) ==
    /\ th[t].pc = "idle"
    /\ \A w \in DOMAIN ljacks : ~ljacks[w].closed
    /\ th' = [th EXCEPT ![t] = [Idle EXCEPT !.pc = "close_named",
                                            !.todo = LogsOf(sortedKeys(DOMAIN named)),
                                            !.owned = OwnedWriters]]
    /\ ev' = NoEv
    /\ UNCHANGED objVars
    /\ UNCHANGED thrVars
    /\ UNCHANGED metVars

\* closeLog(l), the test: l.get().lumberjack != nil, for the next named Log
\* or, after the last one, for r.def; without a writer closeLog returns, and
\* closeLogs with it after r.def
CloseLogTest(t) ==
    /\ th[t].pc \in {"close_named", "close_root"}
    /\ LET root == th[t].todo = <<>>
           l == IF root THEN def ELSE Head(th[t].todo)
           rest == IF root THEN <<>> ELSE Tail(th[t].todo)
       IN IF lw[l].lumberjack # NoSink
          THEN /\ th' = [th EXCEPT ![t] = [@ EXCEPT !.pc = IF root THEN "close_root_call"
                                                           ELSE "close_named_call",
                                                   !.log = l, !.todo = rest]]
               /\ ev' = NoEv
          ELSE IF root
          THEN /\ th' = [th EXCEPT ![t] = Idle]
               /\ ev' = [NoEv EXCEPT !.kind = "close", !.ok = TRUE,
                                     !.closes = th[t].closes, !.errs = th[t].errs]
          ELSE /\ th' = [th EXCEPT ![t] = [@ EXCEPT !.todo = rest]]
               /\ ev' = NoEv
    /\ UNCHANGED objVars
    /\ UNCHANGED thrVars
    /\ UNCHANGED metVars

\* closeLog(l), the call: l.get().lumberjack.Close() on the snapshot loaded
\* now; Close on a nil writer panics; err tells whether Close fails
CloseLogCall(t, err) ==
    /\ th[t].pc \in {"close_named_call", "close_root_call"}
    /\ LET w == lw[th[t].log].lumberjack
           root == th[t].pc = "close_root_call"
           closes == Append(th[t].closes, w)
           errs == IF err THEN th[t].errs \cup {w} ELSE th[t].errs
       IN IF w = NoSink
          THEN /\ th' = [th EXCEPT ![t] = Idle]
               /\ ev' = [NoEv EXCEPT !.kind = "close_panic", !.log = th[t].log,
                                     !.closes = th[t].closes, !.errs = th[t].errs]
               /\ UNCHANGED ljacks
          ELSE /\ ljacks' = [ljacks EXCEPT ![w].closed = TRUE]
               /\ IF AfterClose(err) = "return"
                  THEN /\ th' = [th EXCEPT ![t] = Idle]
                       /\ ev' = [NoEv EXCEPT !.kind = "close_error", !.log = th[t].log,
                                             !.closes = closes, !.errs = errs]
                  ELSE IF root
                  THEN /\ th' = [th EXCEPT ![t] = Idle]
                       /\ ev' = [NoEv EXCEPT !.kind = "close", !.ok = TRUE,
                                             !.closes = closes, !.errs = errs]
                  ELSE /\ th' = [th EXCEPT ![t] = [@ EXCEPT !.pc = "close_named",
                                                           !.closes = closes,
                                                           !.errs = errs]]
                       /\ ev' = NoEv
    /\ UNCHANGED <<mutex, named, def, defConfig, cfgs, lw, sinks, nDefault, nLevel, est>>
    /\ UNCHANGED thrVars
    /\ UNCHANGED metVars

-----------------------------------------------------------------------------
(* Log.SetLevel, Log.SetXxx *)

\* a copy that misses the level
copyUnchanged(snap, level) == snap

\* a copy that takes the level and leaves the fields and the writer behind
copyLevelOnly(snap, level) ==
    [NoSnap EXCEPT !.level = level, !.name = snap.name, !.config = snap.config,
                   !.cfgRef = snap.cfgRef, !.handler = snap.handler]

\* logger.copy(setLevel): a new snapshot with the apex logger copied (handler
\* and fields kept), the same name, config pointer and writer, and the level set
copy(snap, level) ==
    [level |-> level, fields |-> snap.fields, name |-> snap.name,
     config |-> IF snap.cfgRef = 0
                THEN [snap.config EXCEPT !.Level = LevelString(level)]
                ELSE snap.config,
     cfgRef |-> snap.cfgRef, handler |-> snap.handler, lumberjack |-> snap.lumberjack]

\* SetLevel up to the lock: parses the level and reads the name of the Log
SetLevelRead(t, l, s) ==
    /\ th[t].pc = "idle"
    /\ l \in DOMAIN lw
    /\ IF ParseLevel(s).err
       THEN /\ ev' = [NoEv EXCEPT !.kind = "setlevel", !.log = l]
            /\ UNCHANGED <<th, nLevel>>
       ELSE /\ nLevel < MaxSetLevel
            /\ nLevel' = nLevel + 1
            /\ th' = [th EXCEPT ![t] = [Idle EXCEPT !.pc = "setlevel", !.log = l,
                                                    !.level = ParseLevel(s).level,
                                                    !.name = lw[l].name,
                                                    !.arg = s]]
            /\ ev' = NoEv
    /\ UNCHANGED <<mutex, named, def, defConfig, cfgs, lw, sinks, ljacks, nDefault, est>>
    /\ UNCHANGED thrVars
    /\ UNCHANGED metVars

\* a scope made of the Log and of its descendants in the hierarchy
affectedBelow(l, logName) ==
    {named[p] : p \in {q \in DOMAIN named :
                        \/ q = logName
                        \/ /\ HasPrefix(q, logName)
                           /\ Len(logName) < Len(q)
                           /\ q[Len(logName) + 1] = "/"}} \cup {l}

\* the Logs setLogLevel replaces the snapshot of: the named ones whose key
\* starts with logName, and l
affected(l, logName) ==
    {named[p] : p \in {q \in DOMAIN named : HasPrefix(q, logName)}} \cup {l}

\* setLogLevel inside doLocked
SetLevelLocked(t) ==
    /\ th[t].pc = "setlevel"
    /\ CanLock
    /\ LET l == th[t].log
           level == th[t].level
           aff == affected(l, th[t].name)
       IN /\ lw' = [x \in DOMAIN lw |-> IF x \in aff THEN copy(lw[x], level) ELSE lw[x]]
          /\ cfgs' = [c \in DOMAIN cfgs |->
                        IF \E x \in aff : lw[x].cfgRef = c
                        THEN [cfgs[c] EXCEPT !.Level = LevelString(level)]
                        ELSE cfgs[c]]
          /\ ev' = [NoEv EXCEPT !.kind = "setlevel", !.log = l, !.level = level,
                                !.ok = TRUE, !.path = th[t].name]
          /\ est' = [x \in DOMAIN est |-> IF x \in aff THEN level ELSE est[x]]
          /\ th' = [x \in Threads |->
                      IF x = t THEN Idle
                      ELSE IF th[x].pc = "emit" /\ th[x].log \in aff
                           THEN [th[x] EXCEPT !.dirty = TRUE]
                           ELSE th[x]]
    /\ UNCHANGED <<mutex, named, def, defConfig, sinks, ljacks, nDefault, nLevel>>
    /\ UNCHANGED thrVars
    /\ UNCHANGED metVars

-----------------------------------------------------------------------------
(* Log.Trace .. Log.Fatal, Log.IsTrace .. Log.IsFatal *)

\* a check that leaves the threshold's own level out
IsLevelAbove(snap, L) == snap.level < L

\* logger.IsTrace .. logger.IsFatal, for the level L of the method
IsLevelEnabled(snap, L) == snap.level <= L

\* a Fatal that checks the level as Error does
ForwardsChecked(snap, L) ==
    IsLevelEnabled(snap, IF L = FatalLevel THEN ErrorLevel ELSE L)

\* logger.Trace .. logger.Error: forwards when the level is enabled;
\* logger.Fatal: forwards
Forwards(snap, L) == IF L = FatalLevel THEN TRUE ELSE IsLevelEnabled(snap, L)

\* a load that waits for the mutex of the registry
LoadLocked == mutex = "free"

\* the Metrics observers: the package's no-op and two of the caller's
noMetrics == "noop"
Observers == {noMetrics, "m1", "m2"}

\* a SetMetrics that stores what it is given
observerGiven(m) == m

\* SetMetrics: the observer stored for the argument m, which may be nil
observerFor(m) == IF m = "nil" THEN noMetrics ELSE m

\* metrics(): the observer of the wrapper loaded, the no-op for no wrapper
metrics == IF pMetrics.isNil THEN noMetrics ELSE pMetrics.metrics

\* SetMetrics(m): one atomic store of a new wrapper
SetMetrics(t, m) ==
    /\ th[t].pc = "idle"
    /\ pMetrics' = [isNil |-> FALSE, metrics |-> observerFor(m)]
    /\ ev' = [NoEv EXCEPT !.kind = "setmetrics", !.met.obs = m]
    /\ UNCHANGED <<th, objVars>>
    /\ UNCHANGED thrVars

\* a count that follows the level check
CountedIfEnabled(snap, L) == L # FatalLevel /\ IsLevelEnabled(snap, L)

\* logger.Trace .. logger.Error call the observer before the level check,
\* logger.Fatal does not call it
Counted(snap, L) == L # FatalLevel

\* the method of the observer that logger.Trace .. logger.Error call
MetricsMethod(L) ==
    CASE L = TraceLevel -> "Debug"
      [] L = DebugLevel -> "Debug"
      [] L = InfoLevel  -> "Info"
      [] L = WarnLevel  -> "Warn"
      [] L = ErrorLevel -> "Error"

\* the call of the observer that a method of a snapshot makes
MetricsCall(snap, L) ==
    IF Counted(snap, L)
    THEN [obs |-> metrics, method |-> MetricsMethod(L), logger |-> snap.name]
    ELSE NoCall

\* Log.get(): l.lw.Load() takes no lock
LoadReady == TRUE

\* Log.get() of Log.Trace .. Log.Fatal: one atomic load of the snapshot
EmitLoad(t, l, L) ==
    /\ th[t].pc = "idle"
    /\ LoadReady
    /\ l \in DOMAIN lw
    /\ th' = [th EXCEPT ![t] = [Idle EXCEPT !.pc = "emit", !.log = l, !.level = L,
                                            !.snap = lw[l], !.start = metrics,
                                            !.gid = ConfigOf(lw[l], cfgs).GoRoutineID,
                                            !.caller = ConfigOf(lw[l], cfgs).Caller]]
    /\ ev' = NoEv
    /\ UNCHANGED <<mutex, named, def, defConfig, cfgs, lw, sinks, ljacks, nDefault, nLevel, est>>
    /\ UNCHANGED thrVars
    /\ UNCHANGED metVars

\* a second load of the snapshot, at the time the entry is sent
ReceiverReloaded(t) == lw[th[t].log]

\* the receiver of logger.Trace .. logger.Fatal: the snapshot that l.get()
\* returned to Log.Trace .. Log.Fatal
Receiver(t) == th[t].snap

\* logger.Trace .. logger.Fatal on the loaded snapshot: ok tells whether the
\* entry went to the snapshot's handler, gid and caller which fields
\* logger.fields appended
EmitSend(t) ==
    /\ th[t].pc = "emit"
    /\ ev' = [NoEv EXCEPT !.kind = "emit", !.log = th[t].log,
                          !.level = th[t].level,
                          !.ok = Forwards(Receiver(t), th[t].level),
                          !.thr = Receiver(t).level,
                          !.sink = Receiver(t).handler,
                          !.gid = (th[t].gid = "true"),
                          !.caller = (th[t].caller = "true"),
                          !.met = MetricsCall(Receiver(t), th[t].level),
                          !.start = th[t].start]
    /\ th' = [th EXCEPT ![t] = Idle]
    /\ UNCHANGED <<mutex, named, def, defConfig, cfgs, lw, sinks, ljacks, nDefault, nLevel, est>>
    /\ UNCHANGED thrVars
    /\ UNCHANGED metVars

\* Log.IsTrace .. Log.IsFatal
IsLevel(t, l, L) ==
    /\ th[t].pc = "idle"
    /\ LoadReady
    /\ l \in DOMAIN lw
    /\ ev' = [NoEv EXCEPT !.kind = "is", !.log = l, !.level = L,
                          !.ok = IsLevelEnabled(lw[l], L), !.thr = lw[l].level]
    /\ UNCHANGED <<mutex, named, def, defConfig, cfgs, lw, sinks, ljacks, nDefault, nLevel, est, th>>
    /\ UNCHANGED thrVars
    /\ UNCHANGED metVars

-----------------------------------------------------------------------------
(* throttleFactory, throttledLog *)

\* no decorator made yet; last is the zero time until throttle sets it; owner
\* is the Log whose Throttle made the decorator
NoThrottled == [made |-> FALSE, logger |-> NoSnap, period |-> 0, count |-> 0,
                last |-> [isZero |-> TRUE, ms |-> 0],
                mu |-> "free", fmu |-> "free", inst |-> 0, guarded |-> TRUE,
                owner |-> NoLog]

\* newThrottledLog(logger, period)
newThrottledLog(logger, period) ==
    [NoThrottled EXCEPT !.made = TRUE, !.logger = logger, !.period = period]

\* a factory lock that does not exclude
FactoryFreeAlways == TRUE

\* throttleFactory.mu can be locked
FactoryFree == tl.fmu = "free"

\* the period of throttleFactory.get: the duration given, DefaultPeriodMs when
\* none is (0 stands for no duration argument)
PeriodOf(p) == IF p = 0 THEN DefaultPeriodMs ELSE p

\* throttleFactory.get for the one key of the model, up to the cache lookup:
\* returns the cached decorator when there is one and goes on to make one
\* otherwise. p is the duration argument; g tells which of the two throttledLog
\* sources is built: the one with the level guard and the Fatal bypass
\* (TRUE) or the one without (FALSE)
ThrottleGet(t, g, p) ==
    /\ th[t].pc = "idle"
    /\ FactoryFree
    /\ IF tl.made
       THEN /\ ev' = [NoEv EXCEPT !.kind = "throttle_get", !.thr = tl.inst,
                                  !.kv.period = PeriodOf(p)]
            /\ UNCHANGED <<tl, th>>
       ELSE /\ tl' = [tl EXCEPT !.fmu = t]
            /\ th' = [th EXCEPT ![t] = [Idle EXCEPT !.pc = "thr_make", !.period = p,
                                                    !.guarded = g]]
            /\ ev' = NoEv
    /\ UNCHANGED <<now, tcall>>
    /\ UNCHANGED objVars
    /\ UNCHANGED metVars

\* Log.Throttle on the root Log: the logger handed to throttleFactory.get is
\* the snapshot the Log holds at the call
ThrottleOwner == lw[def]

\* throttleFactory.get from the cache miss to the return: newThrottledLog on
\* the logger given, stored in the cache
ThrottleMake(t) ==
    /\ th[t].pc = "thr_make"
    /\ tl' = [newThrottledLog(ThrottleOwner, PeriodOf(th[t].period))
                EXCEPT !.inst = tl.inst + 1, !.guarded = th[t].guarded,
                       !.owner = def]
    /\ ev' = [NoEv EXCEPT !.kind = "throttle_get", !.ok = TRUE, !.thr = tl.inst + 1,
                          !.kv.period = PeriodOf(th[t].period)]
    /\ th' = [th EXCEPT ![t] = Idle]
    /\ UNCHANGED <<now, tcall>>
    /\ UNCHANGED objVars
    /\ UNCHANGED metVars

\* a window that ends only after the period
PeriodOver(last, period, t) == t - last.ms > period

\* utc.Since(f.last) >= f.period, the clock reading t
PeriodPassed(last, period, t) == t - last.ms >= period

\* the scenario of the example goes on: its calls come one at a time, with
\* the clock stepped once after each
OnSchedule(t, phase) ==
    /\ tcall.regular
    /\ tcall.phase = phase
    /\ \A x \in Threads : x # t => th[x].pc = "idle"

\* the clock's values: StepMs or PeriodMs at a time
Ticks == {StepMs, PeriodMs}

\* throttledLog.mu can be locked
MuFree == tl.mu = "free"

\* the clock advances between two calls, or while calls wait for f.mu; what it
\* advances inside the section under f.mu is the d of ThrottleStore
Tick(d) ==
    /\ MuFree
    /\ LET reg == OnSchedule("none", "tick") /\ d = StepMs IN
       /\ now + d <= (IF reg THEN MaxNowMs ELSE MaxFreeNowMs)
       /\ tcall' = [tcall EXCEPT !.regular = reg, !.phase = "call",
                                 !.emits = IF reg THEN @ ELSE <<>>]
    /\ now' = now + d
    /\ ev' = NoEv
    /\ UNCHANGED <<tl, th>>
    /\ UNCHANGED objVars
    /\ UNCHANGED metVars

\* the level guard of throttle: isFn() in the source that has it, none in
\* the other
GuardPasses(L) == tl.guarded => IsLevelEnabled(tl.logger, L)

\* throttledLog.Trace .. Fatal up to f.mu.Lock and the reads under it. With
\* the guard, a call at a disabled level returns and Fatal goes to the logger
\* at once; every other call locks f.mu, reads count and last, and decides
ThrottleCall(t, L) ==
    /\ th[t].pc = "idle"
    /\ tl.made
    /\ IF ~GuardPasses(L)
       THEN /\ ev' = [NoEv EXCEPT !.kind = "throttle_off", !.level = L]
            /\ tcall' = [tcall EXCEPT !.regular = FALSE, !.emits = <<>>]
            /\ UNCHANGED <<tl, th>>
       ELSE IF tl.guarded /\ L = FatalLevel
       THEN /\ tcall.enabled < MaxFreeCalls
            /\ th' = [th EXCEPT ![t] = [Idle EXCEPT !.pc = "thr_emit", !.level = L]]
            /\ ev' = [NoEv EXCEPT !.kind = "throttle_bypass", !.level = L]
            /\ tcall' = [tcall EXCEPT !.regular = FALSE, !.emits = <<>>,
                                      !.enabled = @ + 1]
            /\ UNCHANGED tl
       ELSE LET first == tl.last.isZero
                pass  == ~first /\ PeriodPassed(tl.last, tl.period, now)
                reg   == OnSchedule(t, "call") /\ L # FatalLevel
                             /\ IsLevelEnabled(tl.logger, L)
            IN /\ MuFree
               /\ tcall.n < (IF reg THEN MaxCalls ELSE MaxFreeCalls)
               /\ tl' = [tl EXCEPT !.mu = t]
               /\ th' = [th EXCEPT ![t] =
                           [Idle EXCEPT !.pc = "thr_locked", !.level = L,
                                        !.cnt = tl.count,
                                        !.dec = IF first THEN "first"
                                                ELSE IF pass THEN "pass" ELSE "skip"]]
               /\ ev' = NoEv
               /\ tcall' = [tcall EXCEPT !.regular = reg,
                                         !.emits = IF reg THEN @ ELSE <<>>,
                                         !.enabled = IF IsLevelEnabled(tl.logger, L)
                                                     THEN @ + 1 ELSE @]
    /\ UNCHANGED now
    /\ UNCHANGED objVars
    /\ UNCHANGED metVars

\* an unlock put off until throttle returns
muUnlockDeferred(t) == t

\* f.mu.Unlock(), which throttle calls before logFn
muUnlock(t) == "free"

\* throttle from the decision to f.mu.Unlock: the writes of count and last.
\* d is what the clock advances between utc.Since and utc.Now
ThrottleStore(t, d) ==
    /\ th[t].pc = "thr_locked"
    /\ LET L    == th[t].level
           pass == th[t].dec = "pass"
           skip == th[t].dec = "skip"
           kv   == IF pass
                   THEN [has |-> TRUE, suppressed |-> th[t].cnt, period |-> tl.period]
                   ELSE NoKv
           reg  == tcall.regular /\ d = 0
       IN /\ pass \/ d = 0
          /\ now + d <= (IF reg THEN MaxNowMs ELSE MaxFreeNowMs)
          /\ now' = now + d
          /\ tl' = IF skip THEN [tl EXCEPT !.count = th[t].cnt + 1, !.mu = muUnlock(t)]
                   ELSE [tl EXCEPT !.count = IF pass THEN 0 ELSE @,
                                   !.last = [isZero |-> FALSE, ms |-> now + d],
                                   !.mu = muUnlock(t)]
          /\ th' = [th EXCEPT ![t] = IF skip THEN Idle
                                     ELSE [Idle EXCEPT !.pc = "thr_emit",
                                                       !.level = L, !.kv = kv]]
          /\ ev' = [NoEv EXCEPT !.kind = "throttle_decide", !.level = L,
                                !.ok = ~skip, !.kv = kv]
          /\ tcall' = [tcall EXCEPT
                         !.n = @ + 1,
                         !.dropped = IF skip THEN @ + 1 ELSE 0,
                         !.lastAt = IF skip THEN @ ELSE now + d,
                         !.regular = reg,
                         !.phase = "tick",
                         !.emits = IF ~reg THEN <<>>
                                   ELSE IF skip THEN @
                                   ELSE Append(@, [attempt |-> tcall.n + 1, kv |-> kv])]
    /\ UNCHANGED objVars
    /\ UNCHANGED metVars

\* logFn(msg, kv...) of throttle, or the logger's Fatal of the bypass: the
\* method of the decorator's logger, with its own level check
ThrottleEmit(t) ==
    /\ th[t].pc = "thr_emit"
    /\ LET sent == Forwards(tl.logger, th[t].level) IN
       /\ ev' = [NoEv EXCEPT !.kind = IF sent THEN "throttle" ELSE "throttle_lost",
                             !.level = th[t].level,
                             !.ok = sent,
                             !.thr = tl.logger.level, !.kv = th[t].kv,
                             !.met = IF tl.guarded
                                     THEN MetricsCall(tl.logger, th[t].level)
                                     ELSE NoCall]
       /\ tcall' = [tcall EXCEPT
                      !.emitted = IF sent THEN @ + 1 ELSE @,
                      !.supSum = IF sent /\ th[t].kv.has
                                 THEN @ + th[t].kv.suppressed ELSE @]
    /\ th' = [th EXCEPT ![t] = Idle]
    /\ UNCHANGED <<tl, now>>
    /\ UNCHANGED objVars
    /\ UNCHANGED metVars

\* logger.Trace .. logger.Fatal on the loaded snapshot when the handler of
\* the backend panics: the call made no change but the metrics call, and the
\* panic unwinds through logger.Xxx and Log.Xxx, which hold no lock and defer
\* nothing
EmitPanic(t) ==
    /\ th[t].pc = "emit"
    /\ Forwards(th[t].snap, th[t].level)
    /\ ev' = [NoEv EXCEPT !.kind = "emit_panic", !.log = th[t].log,
                          !.level = th[t].level,
                          !.thr = th[t].snap.level,
                          !.sink = th[t].snap.handler,
                          !.met = MetricsCall(th[t].snap, th[t].level),
                          !.start = th[t].start]
    /\ th' = [th EXCEPT ![t] = Idle]
    /\ UNCHANGED <<mutex, named, def, defConfig, cfgs, lw, sinks, ljacks, nDefault, nLevel, est>>
    /\ UNCHANGED thrVars
    /\ UNCHANGED metVars

\* logFn(msg, kv...) of throttle when the handler of the backend panics: the
\* panic unwinds through throttle, which has unlocked f.mu and defers nothing
ThrottleEmitPanic(t) ==
    /\ th[t].pc = "thr_emit"
    /\ Forwards(tl.logger, th[t].level)
    /\ ev' = [NoEv EXCEPT !.kind = "throttle_panic", !.level = th[t].level,
                          !.thr = tl.logger.level, !.kv = th[t].kv,
                          !.met = IF tl.guarded
                                  THEN MetricsCall(tl.logger, th[t].level)
                                  ELSE NoCall]
    /\ tcall' = [tcall EXCEPT !.regular = FALSE, !.emits = <<>>]
    /\ th' = [th EXCEPT ![t] = Idle]
    /\ UNCHANGED <<tl, now>>
    /\ UNCHANGED objVars
    /\ UNCHANGED metVars

-----------------------------------------------------------------------------
(* Specification *)

RootId == <<Empty, 1>>

\* init(): rootLog = defaultLogRoot()
Init ==
    /\ mutex = "free"
    /\ named = [p \in {} |-> NoLog]
    /\ defConfig = 1
    /\ cfgs = UserConfigs
    /\ LET r == New(1, [log |-> RootId, gen |-> 0],
                    [cfgs |-> UserConfigs, sinks |-> [x \in {} |-> 0],
                     ljacks |-> [x \in {} |-> 0]]) IN
       /\ lw = (RootId :> r.snap)
       /\ sinks = r.sinks
       /\ ljacks = r.ljacks
    /\ def = RootId
    /\ th = [t \in Threads |-> Idle]
    /\ ev = NoEv
    /\ nDefault = 0
    /\ nLevel = 0
    /\ est = (RootId :> ThresholdOf(UserConfigs[1].Level))
    /\ tl = NoThrottled
    /\ now = 0
    /\ pMetrics = [isNil |-> FALSE, metrics |-> noMetrics]
    /\ tcall = [n |-> 0, dropped |-> 0, lastAt |-> 0, regular |-> TRUE,
                phase |-> "call", emits |-> <<>>,
                enabled |-> 0, emitted |-> 0, supSum |-> 0]

\* the Log methods called in the registry specification: Debug and Warn
ObservedLevels == {DebugLevel, WarnLevel}

\* Get and SetDefault from every thread, and IsDebug / IsWarn on every Log
Next ==
    \/ \E t \in Threads, p \in GetPaths : GetLookup(t, p)
    \/ \E t \in Threads : GetCreate(t)
    \/ \E t \in Threads, c \in CfgIds :
            (sameConfig(c) \/ nDefault < MaxSetDefault) /\ SetDefaultBegin(t, c)
    \/ \E t \in Threads : SetDefaultUpdate(t)
    \/ \E t \in Threads, l \in DOMAIN lw, L \in ObservedLevels : IsLevel(t, l, L)

Spec == Init /\ [][Next]_vars

\* the paths and levels of the SetLevel specification
LevelPaths == {PathA, PathAB, PathC}
LevelInputs == {"error", "bogus"}

\* Get, SetDefault and SetLevel from every thread, on every Log there is
NextLevel ==
    \/ \E t \in Threads, p \in LevelPaths : GetLookup(t, p)
    \/ \E t \in Threads : GetCreate(t)
    \/ \E t \in Threads, c \in CfgIds : nDefault < MaxLevelDefault /\ SetDefaultBegin(t, c)
    \/ \E t \in Threads : SetDefaultUpdate(t)
    \/ \E t \in Threads, l \in DOMAIN lw, s \in LevelInputs : SetLevelRead(t, l, s)
    \/ \E t \in Threads : SetLevelLocked(t)

SpecLevel == Init /\ [][NextLevel]_vars

\* the caller's Config objects, the paths and the level of the inheritance
\* specification: a caller may install a Config object it installed before
CallerCfgIds == {2, 3}
InheritPaths == {PathA, PathAB, PathAx}
InheritInputs == {"error"}

\* Get, SetDefault of the caller's configs and SetLevel from every thread,
\* on every Log there is
NextInherit ==
    \/ \E t \in Threads, p \in InheritPaths : GetLookup(t, p)
    \/ \E t \in Threads : GetCreate(t)
    \/ \E t \in Threads, c \in CallerCfgIds : SetDefaultBegin(t, c)
    \/ \E t \in Threads : SetDefaultUpdate(t)
    \/ \E t \in Threads, l \in DOMAIN lw, s \in InheritInputs : SetLevelRead(t, l, s)
    \/ \E t \in Threads : SetLevelLocked(t)

SpecInherit == Init /\ [][NextInherit]_vars

\* the configs and paths of the root specification: a config with an entry
\* for "/" and one without, the empty path (Root() asks for "/") and a path
\* with and without its leading slash
RootCfgIds == {2, 4}
RootPaths == {Empty, <<"a">>, PathA}

\* Get, Root and SetDefault from every thread
NextRoot ==
    \/ \E t \in Threads, p \in RootPaths : GetLookup(t, p)
    \/ \E t \in Threads : GetCreate(t)
    \/ \E t \in Threads, c \in RootCfgIds : SetDefaultBegin(t, c)
    \/ \E t \in Threads : SetDefaultUpdate(t)
    \/ \E t \in Threads : Root(t)

SpecRoot == Init /\ [][NextRoot]_vars

\* the configs and the paths of the file specification, one config that
\* writes to files and one that does not
FileCfgIds == {5, 7}
FilePaths == {PathAB, PathC}
FileInputs == {"error"}

\* Get, SetDefault, and SetLevel on the Logs that own a writer, from every
\* thread
NextFiles ==
    \/ \E t \in Threads, p \in FilePaths : GetLookup(t, p)
    \/ \E t \in Threads : GetCreate(t)
    \/ \E t \in Threads, c \in FileCfgIds :
            nDefault < MaxFileDefault /\ SetDefaultBegin(t, c)
    \/ \E t \in Threads : SetDefaultUpdate(t)
    \/ \E t \in Threads, l \in DOMAIN lw, s \in FileInputs :
            lw[l].lumberjack # NoSink /\ SetLevelRead(t, l, s)
    \/ \E t \in Threads : SetLevelLocked(t)

SpecFiles == Init /\ [][NextFiles]_vars

\* Get, SetDefault and CloseLogFiles from every thread
NextClose ==
    \/ \E t \in Threads, p \in FilePaths : GetLookup(t, p)
    \/ \E t \in Threads : GetCreate(t)
    \/ \E t \in Threads, c \in FileCfgIds :
            nDefault < MaxFileDefault /\ SetDefaultBegin(t, c)
    \/ \E t \in Threads : SetDefaultUpdate(t)
    \/ \E t \in Threads : CloseLogsBegin(t)
    \/ \E t \in Threads : CloseLogTest(t)
    \/ \E t \in Threads, err \in BOOLEAN : CloseLogCall(t, err)

SpecClose == Init /\ [][NextClose]_vars

\* the path, the config, the level string and the level of the calls of the
\* backend specification
BackendPaths == {PathA}
BackendCfgIds == {3}
BackendInputs == {"error"}
BackendLevels == {ErrorLevel}

\* Get, SetDefault, SetLevel, Error on the root Log and on the decorator, with
\* a backend that may panic, from every thread
NextBackend ==
    \/ \E t \in Threads, p \in BackendPaths : GetLookup(t, p)
    \/ \E t \in Threads : GetCreate(t)
    \/ \E t \in Threads, c \in BackendCfgIds :
            nDefault < MaxLevelDefault /\ SetDefaultBegin(t, c)
    \/ \E t \in Threads : SetDefaultUpdate(t)
    \/ \E t \in Threads, s \in BackendInputs : SetLevelRead(t, def, s)
    \/ \E t \in Threads : SetLevelLocked(t)
    \/ \E t \in Threads, L \in BackendLevels : EmitLoad(t, def, L)
    \/ \E t \in Threads : EmitSend(t)
    \/ \E t \in Threads : EmitPanic(t)
    \/ \E t \in Threads : ThrottleGet(t, TRUE, PeriodMs)
    \/ \E t \in Threads : ThrottleMake(t)
    \/ \E t \in Threads, L \in BackendLevels : ThrottleCall(t, L)
    \/ \E t \in Threads : ThrottleStore(t, 0)
    \/ \E t \in Threads : ThrottleEmit(t)
    \/ \E t \in Threads : ThrottleEmitPanic(t)

SpecBackend == Init /\ [][NextBackend]_vars

\* the path and the level string of the specification of New
NewPaths == {PathA}
NewInputs == {"error"}

\* Get, New with the caller's configs and SetLevel from every thread, on
\* every Log there is
NextNew ==
    \/ \E t \in Threads, p \in NewPaths : GetLookup(t, p)
    \/ \E t \in Threads : GetCreate(t)
    \/ \E t \in Threads, c \in CallerCfgIds : NewHandle(t, c)
    \/ \E t \in Threads, l \in DOMAIN lw, s \in NewInputs : SetLevelRead(t, l, s)
    \/ \E t \in Threads : SetLevelLocked(t)

SpecNew == Init /\ [][NextNew]_vars

\* the path of the ownership specification: "/a" has a file of its own in
\* config 5 and "/a/b" has the settings of "/a"
OwnPaths == {PathAB}

\* Get, SetDefault, SetLevel on the Logs that own a writer, and CloseLogFiles,
\* from every thread
NextOwn ==
    \/ \E t \in Threads, p \in OwnPaths : GetLookup(t, p)
    \/ \E t \in Threads : GetCreate(t)
    \/ \E t \in Threads, c \in FileCfgIds :
            nDefault < MaxFileDefault /\ SetDefaultBegin(t, c)
    \/ \E t \in Threads : SetDefaultUpdate(t)
    \/ \E t \in Threads, l \in DOMAIN lw, s \in FileInputs :
            lw[l].lumberjack # NoSink /\ SetLevelRead(t, l, s)
    \/ \E t \in Threads : SetLevelLocked(t)
    \/ \E t \in Threads : CloseLogsBegin(t)
    \/ \E t \in Threads : CloseLogTest(t)
    \/ \E t \in Threads, err \in BOOLEAN : CloseLogCall(t, err)

SpecOwn == Init /\ [][NextOwn]_vars

\* the configs and the paths of the stdout specification: one config that
\* writes to files and two that differ only in having file settings with an
\* empty Filename or none
StdoutCfgIds == {5, 6, 7}
StdoutPaths == {PathA, PathAB, PathC}

\* Get and SetDefault from every thread
NextStdout ==
    \/ \E t \in Threads, p \in StdoutPaths : GetLookup(t, p)
    \/ \E t \in Threads : GetCreate(t)
    \/ \E t \in Threads, c \in StdoutCfgIds :
            nDefault < MaxFileDefault /\ SetDefaultBegin(t, c)
    \/ \E t \in Threads : SetDefaultUpdate(t)

SpecStdout == Init /\ [][NextStdout]_vars

\* the arguments of SetMetrics and the path of the metrics specification
MetricsArgs == {"nil", "m1", "m2"}
MetricsPaths == {PathA}

\* SetMetrics, Get and every Trace .. Fatal on every Log from every thread
NextMetrics ==
    \/ \E t \in Threads, m \in MetricsArgs : SetMetrics(t, m)
    \/ \E t \in Threads, p \in MetricsPaths : GetLookup(t, p)
    \/ \E t \in Threads : GetCreate(t)
    \/ \E t \in Threads, l \in DOMAIN lw, L \in Levels : EmitLoad(t, l, L)
    \/ \E t \in Threads : EmitSend(t)

SpecMetrics == Init /\ [][NextMetrics]_vars

\* the paths, level names and method of the emission specification
EmitPaths == {PathA, PathAB}
EmitInputs == {"error"}
EmitLevels == {InfoLevel}

\* Get, SetDefault, SetLevel, Info and IsInfo from every thread
NextEmit ==
    \/ \E t \in Threads, p \in EmitPaths : GetLookup(t, p)
    \/ \E t \in Threads : GetCreate(t)
    \/ \E t \in Threads, c \in CfgIds : nDefault < MaxLevelDefault /\ SetDefaultBegin(t, c)
    \/ \E t \in Threads : SetDefaultUpdate(t)
    \/ \E t \in Threads, l \in DOMAIN lw, s \in EmitInputs : SetLevelRead(t, l, s)
    \/ \E t \in Threads : SetLevelLocked(t)
    \/ \E t \in Threads, l \in DOMAIN lw, L \in EmitLevels : EmitLoad(t, l, L)
    \/ \E t \in Threads : EmitSend(t)
    \/ \E t \in Threads, l \in DOMAIN lw, L \in EmitLevels : IsLevel(t, l, L)

SpecEmit == Init /\ [][NextEmit]_vars

\* every level name
AllLevelNames == {LevelNames[i] : i \in Levels}

\* SetLevel to every level on the root Log, and every Trace .. Fatal and
\* IsTrace .. IsFatal on it
NextHandle ==
    \/ \E t \in Threads, s \in AllLevelNames : SetLevelRead(t, def, s)
    \/ \E t \in Threads : SetLevelLocked(t)
    \/ \E t \in Threads, L \in Levels : EmitLoad(t, def, L)
    \/ \E t \in Threads : EmitSend(t)
    \/ \E t \in Threads, L \in Levels : IsLevel(t, def, L)

SpecHandle == Init /\ [][NextHandle]_vars

\* the methods called on the decorator and what the clock may advance inside
\* a call
ThrottleLevels == {DebugLevel, WarnLevel, FatalLevel}
Skews == {0, StepMs}

\* one decorator of the root Log, called from every thread, and the clock
NextThrottle ==
    \/ \E t \in Threads, g \in BOOLEAN : ThrottleGet(t, g, PeriodMs)
    \/ \E t \in Threads : ThrottleMake(t)
    \/ \E t \in Threads, L \in ThrottleLevels : ThrottleCall(t, L)
    \/ \E t \in Threads, d \in Skews : ThrottleStore(t, d)
    \/ \E t \in Threads : ThrottleEmit(t)
    \/ \E d \in Ticks : Tick(d)

SpecThrottle == Init /\ [][NextThrottle]_vars

\* the duration arguments of Throttle: none (0), that of the example, another
GetPeriods == {0, PeriodMs, StepMs}

\* Throttle with every duration argument from every thread, Warn on the
\* decorator, and the clock
NextFactory ==
    \/ \E t \in Threads, g \in BOOLEAN, p \in GetPeriods : ThrottleGet(t, g, p)
    \/ \E t \in Threads : ThrottleMake(t)
    \/ \E t \in Threads : ThrottleCall(t, WarnLevel)
    \/ \E t \in Threads : ThrottleStore(t, 0)
    \/ \E t \in Threads : ThrottleEmit(t)
    \/ Tick(PeriodMs)

SpecFactory == Init /\ [][NextFactory]_vars

-----------------------------------------------------------------------------
(* Reading the registry *)

\* no SetDefault is between replacing the root Log and updating the named Logs
Settled == \A t \in Threads : th[t].pc # "setdefault_update"

\* what Get(path) answers from the registry as it is
Registered(path) ==
    LET p == Normalize(path)
    IN IF p = Empty \/ (p = Slash /\ Slash \notin DOMAIN named) THEN def ELSE named[p]

-----------------------------------------------------------------------------
(* Claims *)

\* C1: every Get(p) returns the one handle the registry holds for p: no second
\* Log is ever created for a named path, a registered handle is never replaced
\* by another object, and a Get that finds p registered changes nothing.
C1_OneHandlePerPath ==
    /\ [](ev.kind = "get" => ev.log = Registered(ev.path))
    /\ [](\A l \in DOMAIN lw : l[1] # Empty => l[2] = 1)
    /\ [][/\ \A p \in DOMAIN named : p \in DOMAIN named' /\ named'[p] = named[p]
          /\ (ev'.kind = "get" /\ ~ev'.ok) =>
                UNCHANGED <<named, def, defConfig, cfgs, lw, sinks, ljacks>>]_vars

\* a Get has just created the Log of /a/b below the registered /a, and a
\* thread is free to call Get again
C1_Witness ==
    /\ ev.kind = "get" /\ ev.ok
    /\ ev.path = PathAB
    /\ PathA \in DOMAIN named
    /\ \E t \in Threads : th[t].pc = "idle"

\* C2: a handle registered for a named path stays the registered object across
\* SetDefault(c), and once SetDefault(c) has returned its level is the level c
\* resolves to for its path, which is what IsXxx on it then answers.
C2_NamedHandleFollowsSetDefault ==
    /\ [][\A p \in DOMAIN named : p \in DOMAIN named' /\ named'[p] = named[p]]_vars
    /\ [](ev.kind = "setdefault" /\ ev.ok =>
            \A p \in DOMAIN named :
                lw[named[p]].level = ResolvedLevel(cfgs[defConfig], p))
    /\ [](ev.kind = "is" /\ Settled =>
            \A p \in DOMAIN named :
                named[p] = ev.log =>
                    ev.ok = (ResolvedLevel(cfgs[defConfig], p) <= ev.level))

\* IsDebug on the handle of /a, obtained under the initial config, answers
\* true after SetDefault of the second config (debug at /a)
C2_Witness ==
    /\ ev.kind = "is" /\ ev.ok /\ ev.level = DebugLevel
    /\ PathA \in DOMAIN named /\ ev.log = named[PathA]
    /\ nDefault >= 1 /\ defConfig = 2

\* C3: a root handle returned by Get("") or Get("/") is still the root handle
\* after the next SetDefault(c), and then has the level c resolves to.
C3_RootHandleFollowsSetDefault ==
    [][(ev.kind = "get" /\ Normalize(ev.path) \in {Empty, Slash}
            /\ ev'.kind = "setdefault_root") =>
          /\ def' = ev.log
          /\ lw'[ev.log].level = ThresholdOf(cfgs'[defConfig'].Level)]_vars

\* C4: with Get and SetDefault only, every registered handle has the level,
\* backend kind, file settings and flags that the default config gives its
\* path: the nearest entry that sets the field, the default's own otherwise.
C4_MergeInvariant ==
    Settled =>
        \A p \in DOMAIN named :
            LET snap == lw[named[p]]
                c == cfgs[defConfig]
            IN /\ snap.level = ResolvedLevel(c, p)
               /\ snap.config.Level = ResolvedLevelString(c, p)
               /\ snap.config.Handler = ResolvedHandler(c, p)
               /\ sinks[snap.handler].kind = HandlerKind(ResolvedHandler(c, p))
               /\ snap.config.File = ResolvedFile(c, p)
               /\ snap.config.GoRoutineID = ResolvedGoRoutineID(c, p)
               /\ snap.config.Caller = ResolvedCaller(c, p)

\* /a/b is registered and inherits debug from the entry of /a, and /c has the
\* handler and file of its own entry with the thread-id flag of the default
C4_Witness ==
    /\ Settled
    /\ defConfig = 2
    /\ PathAB \in DOMAIN named /\ lw[named[PathAB]].level = DebugLevel
    /\ PathC \in DOMAIN named /\ lw[named[PathC]].config.GoRoutineID = "true"
    /\ lw[named[PathC]].config.Caller = "true"

\* the path a Log was created for; the empty path for a root Log
PathOf(l) == l[1]

\* C5: SetLevel on the handle of path p gives the new level to the registered
\* handles whose path starts with p, and leaves the level of every other
\* registered handle and, when p is not the root, of the root handle.
C5_SetLevelScope ==
    [][(ev'.kind = "setlevel" /\ ev'.ok) =>
          LET target == PathOf(ev'.log) IN
          /\ lw'[ev'.log].level = ev'.level
          /\ \A p \in DOMAIN named :
                IF HasPrefix(p, target)
                THEN lw'[named[p]].level = ev'.level
                ELSE lw'[named[p]].level = lw[named[p]].level
          /\ target # Empty => lw'[def].level = lw[def].level]_vars

\* C6: a SetLevel changes, in the snapshot of each handle it affects, the
\* level and nothing else: handler, name, fields, writer and the thread-id and
\* caller flags stay, no handler or writer is created, and the snapshots of
\* the other handles stay as they are.
C6_SetLevelKeepsTheRest ==
    [][(ev'.kind = "setlevel" /\ ev'.ok) =>
          /\ sinks' = sinks /\ ljacks' = ljacks /\ named' = named
          /\ \A l \in DOMAIN lw :
                /\ lw'[l].handler = lw[l].handler
                /\ lw'[l].name = lw[l].name
                /\ lw'[l].fields = lw[l].fields
                /\ lw'[l].lumberjack = lw[l].lumberjack
                /\ ConfigOf(lw'[l], cfgs').GoRoutineID = ConfigOf(lw[l], cfgs).GoRoutineID
                /\ ConfigOf(lw'[l], cfgs').Caller = ConfigOf(lw[l], cfgs).Caller
                /\ ConfigOf(lw'[l], cfgs').Handler = ConfigOf(lw[l], cfgs).Handler
                /\ ConfigOf(lw'[l], cfgs').File = ConfigOf(lw[l], cfgs).File
                /\ lw'[l].level # lw[l].level => lw'[l].level = ev'.level]_vars

\* SetLevel("error") has returned on the handle of /c, which writes to its own
\* file with the caller flag set, and its level is now error
C6_Witness ==
    /\ ev.kind = "setlevel" /\ ev.ok /\ ev.level = ErrorLevel
    /\ PathC \in DOMAIN named /\ ev.log = named[PathC]
    /\ lw[ev.log].lumberjack # NoSink
    /\ lw[ev.log].config.Caller = "true"
    /\ lw[ev.log].level = ErrorLevel

\* C7: IsXxx answers from, and an entry is judged against, the level that the
\* last returned SetLevel or SetDefault affecting the handle gave it, unless
\* that call returned after the emitting call had started.
C7_ReturnedLevelIsUsed ==
    /\ [](ev.kind = "is" => ev.thr = est[ev.log] /\ ev.ok = (est[ev.log] <= ev.level))
    /\ [][\A t \in Threads :
            (th[t].pc = "emit" /\ th'[t].pc = "idle" /\ ~th[t].dirty) =>
                /\ ev'.kind = "emit" /\ ev'.log = th[t].log
                /\ ev'.thr = est[th[t].log]
                /\ ev'.ok = (est[th[t].log] <= th[t].level)]_vars

\* Info on the handle of /a was dropped at the threshold error that a
\* returned SetLevel gave it, where the default config resolves to another
C7_Witness ==
    /\ ev.kind = "emit" /\ ~ev.ok /\ ev.thr = ErrorLevel
    /\ PathA \in DOMAIN named /\ ev.log = named[PathA]
    /\ ResolvedLevel(cfgs[defConfig], PathA) # ErrorLevel
    /\ nLevel >= 1

\* C8: IsL answers true, and an entry of level L goes to the handler, exactly
\* when the threshold is at most L in trace < debug < info < warn < error <
\* fatal; IsFatal is always true.
C8_EnabledFromThreshold ==
    /\ TraceLevel < DebugLevel /\ DebugLevel < InfoLevel /\ InfoLevel < WarnLevel
    /\ WarnLevel < ErrorLevel /\ ErrorLevel < FatalLevel
    /\ ev.kind \in {"is", "emit"} => ev.ok = (ev.thr <= ev.level)
    /\ (ev.kind = "is" /\ ev.level = FatalLevel) => ev.ok

\* IsWarn answered true at the threshold warn
C8_Witness ==
    ev.kind = "is" /\ ev.ok /\ ev.level = WarnLevel /\ ev.thr = WarnLevel

\* C9: an entry of level Fatal always goes to the handler.
C9_FatalAlwaysForwarded ==
    (ev.kind = "emit" /\ ev.level = FatalLevel) => ev.ok

\* Fatal went to the handler at the threshold fatal
C9_Witness ==
    ev.kind = "emit" /\ ev.level = FatalLevel /\ ev.ok /\ ev.thr = FatalLevel

\* C10: on a decorator at an enabled level, the first call is emitted with the
\* fields it was given; a later call is emitted exactly when the period has
\* elapsed since the last emitted one, with suppressed = the calls dropped
\* since then and throttle_period = the period, and the counter back at 0;
\* any other call is dropped and counted. In the example (period 100 ms, a
\* call every 10 ms, 24 calls) attempts 1, 11 and 21 are emitted, the last two
\* with suppressed = 9.
C10_ThrottleWindow ==
    /\ [][ev'.kind = "throttle_decide" =>
            IF tcall.n = 0
            THEN ev'.ok /\ ev'.kv = NoKv /\ tl'.count = tl.count
            ELSE IF now - tcall.lastAt >= PeriodMs
            THEN /\ ev'.ok
                 /\ ev'.kv = [has |-> TRUE, suppressed |-> tcall.dropped,
                              period |-> PeriodMs]
                 /\ tl'.count = 0
            ELSE ~ev'.ok /\ tl'.count = tl.count + 1]_vars
    /\ [][ev'.kind = "throttle" =>
            \E t \in Threads :
                th[t].pc = "thr_emit" /\ th'[t].pc = "idle"
                /\ ev'.ok /\ ev'.kv = th[t].kv]_vars
    /\ []((tcall.regular /\ tcall.n = ExampleCalls) =>
            tcall.emits = <<[attempt |-> 1, kv |-> NoKv],
                            [attempt |-> 11,
                             kv |-> [has |-> TRUE, suppressed |-> 9, period |-> PeriodMs]],
                            [attempt |-> 21,
                             kv |-> [has |-> TRUE, suppressed |-> 9, period |-> PeriodMs]]>>)

\* the 24 calls of the example are done, 10 ms apart, and the last has returned
C10_Witness ==
    /\ tcall.regular /\ tcall.n = ExampleCalls
    /\ \A t \in Threads : th[t].pc = "idle"
    /\ now = (ExampleCalls - 1) * StepMs
    /\ Len(tcall.emits) = 3
    /\ tl.count = 3

\* C11: once every call on the decorator has returned, the calls made at an
\* enabled level are the entries that reached the handler, plus the suppressed
\* values these entries carried, plus the counter.
C11_NoCallLost ==
    (\A t \in Threads : th[t].pc = "idle") =>
        tcall.enabled = tcall.emitted + tcall.supSum + tl.count

\* what a call on the decorator ended in: dropped by the level guard, decided
\* under f.mu, forwarded by the logger, or dropped by the logger
ThrottleOutcomes == {"throttle_off", "throttle_decide", "throttle", "throttle_lost"}

\* C12: a call on the decorator at a level its logger does not emit is
\* dropped before the throttle state is looked at: count and last stay as
\* they are and nothing goes to the logger.
C12_DisabledCallLeavesWindow ==
    [][(ev'.kind \in ThrottleOutcomes /\ ~IsLevelEnabled(tl.logger, ev'.level)) =>
          /\ ev'.kind = "throttle_off"
          /\ tl'.count = tl.count
          /\ tl'.last = tl.last]_vars

\* C13: Fatal on the decorator goes to the logger on every call, without a
\* decision under f.mu, and leaves count and last as they are.
C13_FatalBypassesThrottle ==
    [][(ev'.kind \in ThrottleOutcomes /\ ev'.level = FatalLevel) =>
          /\ ev'.kind = "throttle" /\ ev'.ok /\ ev'.kv = NoKv
          /\ tl'.count = tl.count
          /\ tl'.last = tl.last]_vars

\* C14: every Throttle call for the key returns the one decorator that was
\* ever made for it, also when the first calls run at the same time, and the
\* decorator keeps the period of the call that made it (5 seconds when that
\* call gave none), whatever later calls ask for.
C14_OneDecoratorPerKey ==
    /\ [](tl.inst <= 1)
    /\ [](ev.kind = "throttle_get" => tl.made /\ ev.thr = tl.inst)
    /\ [][tl.made => tl'.made /\ tl'.inst = tl.inst /\ tl'.period = tl.period]_vars
    /\ [][\A t \in Threads :
            (th[t].pc = "thr_make" /\ th'[t].pc = "idle") =>
                tl'.period = (IF th[t].period = 0 THEN 5000 ELSE th[t].period)]_vars

\* a Throttle call asking for 100 ms got the decorator made with no duration
\* given, which keeps its 5 seconds
C14_Witness ==
    /\ ev.kind = "throttle_get" /\ ~ev.ok
    /\ ev.kv.period = PeriodMs
    /\ tl.inst = 1 /\ ev.thr = 1
    /\ tl.period = DefaultPeriodMs

\* C15: SetDefault with a config deep-equal to the current default config
\* changes nothing: no snapshot is replaced, no handler or writer is created
\* or closed, the default config and the root Log stay the ones they were;
\* a SetDefault that does replace them was given a config that differs.
C15_SameConfigIsNoOp ==
    [][/\ (ev'.kind = "setdefault" /\ ~ev'.ok) =>
             UNCHANGED <<named, def, defConfig, cfgs, lw, sinks, ljacks, mutex, th>>
       /\ (\E t \in Threads : th[t].pc = "idle" /\ th'[t].pc = "setdefault_update") =>
             cfgs[defConfig'] # cfgs[defConfig]]_vars

\* a SetDefault that found its config equal to the installed one, after a
\* config was installed over registered Logs
C15_Witness ==
    /\ ev.kind = "setdefault" /\ ~ev.ok
    /\ nDefault >= 1
    /\ DOMAIN named # {}

\* C16: when SetDefault(c) with a config that is not deep-equal to the
\* installed one has returned, the root Log and every registered handle have
\* the level c gives their path, whatever level a SetLevel gave them before.
C16_SetDefaultDiscardsSetLevel ==
    (ev.kind = "setdefault" /\ ev.ok) =>
        /\ lw[def].level = ThresholdOf(cfgs[defConfig].Level)
        /\ \A p \in DOMAIN named :
              lw[named[p]].level = ResolvedLevel(cfgs[defConfig], p)

\* SetDefault of the second config has returned after SetLevel("error") on
\* the first root Log had set the registered handles to error: /a is at
\* debug and /c at warn again
C16_Witness ==
    /\ ev.kind = "setdefault" /\ ev.ok /\ defConfig = 2
    /\ cfgs[1].Level = "error"
    /\ \A t \in Threads : th[t].pc = "idle"
    /\ PathA \in DOMAIN named /\ lw[named[PathA]].level = DebugLevel
    /\ PathC \in DOMAIN named /\ lw[named[PathC]].level = WarnLevel

\* the registered proper ancestors of a path in the hierarchy
RegisteredAncestors(p) ==
    {q \in DOMAIN named : HasPrefix(p, q) /\ Len(q) < Len(p) /\ p[Len(q) + 1] = "/"}

\* C17: a Get that creates the handle of a path with no entry of the default
\* config below its nearest registered ancestor gives it the level that this
\* ancestor has at the time, the root Log's when no ancestor is registered,
\* a level set by SetLevel included.
C17_NewHandleInheritsCurrentLevel ==
    [][(ev'.kind = "get" /\ ev'.ok) =>
          LET p == ev'.path
              ancs == RegisteredAncestors(p)
              anc == IF ancs = {} THEN def ELSE named[Longest(ancs)]
              ancLen == IF ancs = {} THEN 0 ELSE Len(Longest(ancs))
              below == {q \in EntriesFor(cfgs[defConfig], p) : Len(q) > ancLen}
          IN below = {} => lw'[ev'.log].level = lw[anc].level]_vars

\* C18: Get("") and Get("/"), which is what Root() returns, both return the
\* root Log, under every default config, one with an entry for "/"
\* included, and Get of a path without its leading slash returns the handle
\* registered for the path with it.
C18_RootAndRelativePaths ==
    /\ (ev.kind = "get" /\ Normalize(ev.path) \in {Empty, Slash}) => ev.log = def
    /\ (ev.kind = "get" /\ ev.path = <<"a">>) =>
            PathA \in DOMAIN named /\ ev.log = named[PathA]

\* C19: Log.Trace .. Log.Fatal and Log.IsTrace .. Log.IsFatal never take the
\* mutex of the registry: a thread can load the snapshot, answer IsXxx and
\* send its entry in every state, one where another thread holds the mutex
\* inside Get or SetDefault included, and these steps leave the mutex and
\* the registry as they are.
C19_ReadsNeverLock ==
    /\ [](\A t \in Threads, l \in DOMAIN lw :
            /\ th[t].pc = "idle" => /\ ENABLED IsLevel(t, l, InfoLevel)
                                    /\ ENABLED EmitLoad(t, l, InfoLevel)
            /\ th[t].pc = "emit" => ENABLED EmitSend(t))
    /\ [][(\/ ev'.kind \in {"is", "emit"}
           \/ \E t \in Threads : th[t].pc = "idle" /\ th'[t].pc = "emit") =>
              UNCHANGED <<mutex, named, def, defConfig, cfgs, lw, sinks, ljacks>>]_vars

\* Info on a handle has loaded the snapshot and sent its entry while the
\* other thread is inside SetDefault, between the new root Log and the
\* update of the named Logs
C19_Witness ==
    /\ ev.kind = "emit" /\ ev.ok
    /\ \E u \in Threads : th[u].pc = "setdefault_update" /\ mutex = u
    /\ \E p \in DOMAIN named : named[p] = ev.log

\* C20: SetLevel with a string that is no level name returns before the
\* registry is locked: no snapshot is replaced, every handle keeps its level
\* and its config, and only a level name ever reaches setLogLevel.
C20_InvalidLevelIsNoOp ==
    [][/\ (ev'.kind = "setlevel" /\ ~ev'.ok) =>
             UNCHANGED <<mutex, named, def, defConfig, cfgs, lw, sinks, ljacks, th>>
       /\ \A t \in Threads :
             (th[t].pc = "idle" /\ th'[t].pc = "setlevel") =>
                 \E i \in Levels : LevelNames[i] = th'[t].arg]_vars

\* SetLevel("bogus") has returned on the handle of /a, which has the
\* registered descendant /a/b
C20_Witness ==
    /\ ev.kind = "setlevel" /\ ~ev.ok
    /\ PathA \in DOMAIN named /\ ev.log = named[PathA]
    /\ PathAB \in DOMAIN named
    /\ nDefault >= 1

\* C21: a snapshot built from a Config whose level string is no level name
\* ("normal", which NewConfig sets) has the level info, the root Log's and a
\* named Log's alike; newLog has no error to return.
C21_InvalidConfigLevelIsInfo ==
    \A l \in DOMAIN lw :
        LET c == ConfigOf(lw[l], cfgs)
        IN (~\E i \in Levels : LevelNames[i] = c.Level) => lw[l].level = InfoLevel

\* under the second config, whose level is "normal", the root Log and the
\* handle of /ab, which no entry covers, are at info
C21_Witness ==
    /\ Settled /\ defConfig = 2
    /\ cfgs[2].Level = "normal"
    /\ lw[def].level = InfoLevel
    /\ PathAx \in DOMAIN named
    /\ lw[named[PathAx]].config.Level = "normal"
    /\ lw[named[PathAx]].level = InfoLevel

\* C22: SetMetrics(m) stores m, the no-op observer for nil, in one step, and
\* the observer a log call reports to is the one stored when it makes its
\* call: the one of the latest SetMetrics, and for a call that was running
\* when SetMetrics came, the stored one as well; it is never nil and always
\* one of the observers given.
C22_MetricsObserverIsCurrent ==
    /\ [](~pMetrics.isNil /\ pMetrics.metrics \in Observers)
    /\ [][(ev'.kind = "setmetrics") =>
            pMetrics'.metrics = (IF ev'.met.obs = "nil" THEN "noop" ELSE ev'.met.obs)]_vars
    /\ [][(ev'.kind = "emit" /\ ev'.level # FatalLevel) =>
            /\ ev'.met.obs = pMetrics.metrics
            /\ ev'.met.obs \in Observers]_vars

\* a log call that started under the observer m1 has reported to the no-op
\* observer that SetMetrics(nil) installed while it was running
C22_Witness ==
    /\ ev.kind = "emit" /\ ev.level = InfoLevel
    /\ ev.start = "m1"
    /\ ev.met.obs = noMetrics
    /\ pMetrics.metrics = noMetrics

\* C23: every Trace, Debug, Info, Warn or Error on a handle makes one call of
\* the observer in place, of the method of its level (Debug for Trace) and
\* with the name of the handle, whether the threshold lets the entry pass
\* or not.
C23_EveryCallIsCounted ==
    [][(ev'.kind = "emit" /\ ev'.level # FatalLevel) =>
          /\ ev'.met.obs = pMetrics.metrics
          /\ ev'.met.method = (CASE ev'.level \in {TraceLevel, DebugLevel} -> "Debug"
                                 [] ev'.level = InfoLevel -> "Info"
                                 [] ev'.level = WarnLevel -> "Warn"
                                 [] ev'.level = ErrorLevel -> "Error")
          /\ ev'.met.logger = lw[ev'.log].name]_vars

\* Trace on the handle of /a, which is at info, was dropped and counted as
\* Debug for "/a" by the observer m1
C23_Witness ==
    /\ ev.kind = "emit" /\ ~ev.ok /\ ev.level = TraceLevel
    /\ PathA \in DOMAIN named /\ ev.log = named[PathA]
    /\ ev.met = [obs |-> "m1", method |-> "Debug", logger |-> PathA]

\* C24: CloseLogFiles returns to its caller normally, after it has called
\* Close on the writer of every Log that owned one when it began and owns
\* it still, whether a Close failed on the way or not.
C24_CloseLogFilesClosesAll ==
    /\ [](ev.kind \notin {"close_panic", "close_error"})
    /\ [][(ev'.kind = "close") =>
            \A t \in Threads :
                (th[t].pc \in {"close_named", "close_root", "close_root_call"}
                    /\ th'[t].pc = "idle") =>
                        \A w \in th[t].owned \cap OwnedWriters :
                            /\ \E i \in DOMAIN ev'.closes : ev'.closes[i] = w
                            /\ ljacks'[w].closed]_vars

\* C25: when SetDefault has replaced the snapshots, a handle whose backend
\* kind and file are what they were keeps the writer its old snapshot owned,
\* and no writer is left open that no current snapshot owns: the writers
\* that were not taken over are closed.
C25_SetDefaultKeepsOrClosesWriters ==
    /\ [][(ev'.kind = "setdefault" /\ ev'.ok) =>
            \A p \in DOMAIN named :
                LET old == lw[named[p]]
                    new == lw'[named[p]]
                IN (/\ old.lumberjack # NoSink
                    /\ new.config.Handler = old.config.Handler
                    /\ new.config.File = old.config.File)
                       => new.lumberjack = old.lumberjack]_vars
    /\ []((ev.kind = "setdefault" /\ ev.ok) =>
            \A w \in DOMAIN ljacks : ~ljacks[w].closed => w \in OwnedWriters)

\* the file newLog writes to: none when the settings have no Filename
FileTarget(f) == IF ~f.nil /\ f.Filename = "" THEN NilFile ELSE f

\* the Log a registered path is derived from: its nearest registered
\* ancestor, the root Log when none is registered
ParentLog(p) ==
    IF RegisteredAncestors(p) = {} THEN def ELSE named[Longest(RegisteredAncestors(p))]

\* C26: file settings with an empty Filename count as no file settings: a
\* handle with such settings writes to stdout and owns no writer, and it
\* uses the sink of the Log it is derived from exactly when the two have the
\* same backend kind and the same file target, empty-Filename settings and
\* absent ones being the same target on either side.
C26_EmptyFilenameIsNoFile ==
    mutex = "free" =>
        \A p \in DOMAIN named :
            LET s    == lw[named[p]]
                c    == ConfigOf(s, cfgs)
                par  == lw[ParentLog(p)]
                parC == ConfigOf(par, cfgs)
            IN /\ FileTarget(c.File).nil =>
                    /\ s.lumberjack = NoSink
                    /\ sinks[s.handler].file.nil
               /\ (c.Handler = parC.Handler /\ FileTarget(c.File) = FileTarget(parC.File))
                    <=> s.handler = par.handler

\* the paths whose Log the step made or re-derived: those a Get registered,
\* all the registered ones for SetDefault
Derived == IF ev'.kind = "get" THEN DOMAIN named' \ DOMAIN named ELSE DOMAIN named'

\* whether the new snapshot of p has the backend kind and the file settings
\* of the snapshot of the Log it is derived from
SameSettings(p) ==
    LET c    == ConfigOf(lw'[named'[p]], cfgs')
        parC == ConfigOf(lw'[ParentLog(p)'], cfgs')
    IN c.Handler = parC.Handler /\ c.File = parC.File

\* C27: a handle that Get creates or SetDefault re-derives with the backend
\* kind and the file settings of its nearest registered ancestor (the root
\* when there is none) uses that ancestor's sink and owns no writer; any
\* other gets a sink of its own; InstanceCreated is reported once for each
\* handle of the second sort and FileCreated once for each of them that
\* writes to a file.
C27_ReuseOrNewSink ==
    [][(ev'.kind \in {"get", "setdefault"} /\ ev'.ok) =>
        /\ \A p \in Derived :
                LET s   == lw'[named'[p]]
                    par == lw'[ParentLog(p)']
                IN IF SameSettings(p)
                   THEN s.handler = par.handler /\ s.lumberjack = NoSink
                   ELSE s.handler \notin DOMAIN sinks /\ s.handler \in DOMAIN sinks'
        /\ ev'.inst = Cardinality({p \in Derived : ~SameSettings(p)})
        /\ ev'.files = Cardinality({p \in Derived :
                            /\ ~SameSettings(p)
                            /\ ~FileTarget(ConfigOf(lw'[named'[p]], cfgs').File).nil})]_vars

\* C28: a rotation writer is owned by the snapshot of one Log only; a Log
\* that uses a sink built for another Log owns no writer; SetLevel leaves
\* with the new snapshot of every Log the writer its old snapshot owned; and
\* one CloseLogFiles calls Close on a writer at most once.
C28_WriterHasOneOwner ==
    /\ [](\A l1 \in DOMAIN lw, l2 \in DOMAIN lw :
            (l1 # l2 /\ lw[l1].lumberjack # NoSink) =>
                lw[l1].lumberjack # lw[l2].lumberjack)
    /\ [](\A l \in DOMAIN lw : lw[l].handler.log # l => lw[l].lumberjack = NoSink)
    /\ [][(ev'.kind = "setlevel" /\ ev'.ok) =>
            \A l \in DOMAIN lw : lw'[l].lumberjack = lw[l].lumberjack]_vars
    /\ [](\A i \in DOMAIN ev.closes, j \in DOMAIN ev.closes :
            ev.closes[i] = ev.closes[j] => i = j)

\* CloseLogFiles has closed two writers, one of them owned by a Log whose
\* level SetLevel set, with a registered Log that uses another Log's sink
C28_Witness ==
    /\ ev.kind = "close"
    /\ Len(ev.closes) >= 2
    /\ \E l \in DOMAIN lw :
            /\ lw[l].level = ErrorLevel
            /\ lw[l].lumberjack # NoSink
            /\ \E i \in DOMAIN ev.closes : ev.closes[i] = lw[l].lumberjack
    /\ \E p \in DOMAIN named : lw[named[p]].handler.log # named[p]

\* C29: SetLevel on a Log changes the level of every registered Log whose
\* path starts, as a string, with the name of that Log, "/ab" for the Log of
\* "/a" as well as "/a/b", and leaves every other registered Log as it is.
C29_SetLevelScopeIsTextualPrefix ==
    [][(ev'.kind = "setlevel" /\ ev'.ok) =>
        \A p \in DOMAIN named :
            IF HasPrefix(p, ev'.path)
            THEN lw'[named[p]].level = ev'.level
            ELSE named[p] # ev'.log => lw'[named[p]] = lw[named[p]]]_vars

\* SetLevel on the Log of "/a" has set the level of the Log of "/ab"
C29_Witness ==
    /\ ev.kind = "setlevel" /\ ev.ok
    /\ ev.path = PathA
    /\ PathA \in DOMAIN named /\ ev.log = named[PathA]
    /\ PathAx \in DOMAIN named
    /\ ev.level = ErrorLevel
    /\ lw[named[PathAx]].level = ErrorLevel

\* the steps at which a backend panicked
BackendPanics == {"emit_panic", "throttle_panic"}

\* the thread holds one of the registry mutex, the decorator's mutex and the
\* factory's mutex
HoldsLock(t) == mutex = t \/ tl.mu = t \/ tl.fmu = t

\* C30: a thread that calls the backend, through a Log or through the
\* throttled decorator, holds neither the registry mutex nor a throttle
\* mutex; a backend that panics changes neither the named map nor the
\* default config nor any snapshot, and leaves its thread with no lock: once
\* the other threads have returned every mutex is free and a Get can start.
C30_BackendFailureIsContained ==
    /\ [](\A t \in Threads : th[t].pc \in {"emit", "thr_emit"} => ~HoldsLock(t))
    /\ [][ev'.kind \in BackendPanics =>
            /\ named' = named /\ def' = def /\ defConfig' = defConfig
            /\ cfgs' = cfgs /\ lw' = lw /\ tl' = tl
            /\ \A t \in Threads : th'[t] # th[t] => (th'[t] = Idle /\ ~HoldsLock(t)')]_vars
    /\ []((ev.kind \in BackendPanics /\ \A t \in Threads : th[t].pc = "idle") =>
            /\ mutex = "free" /\ tl.mu = "free" /\ tl.fmu = "free"
            /\ \A t \in Threads : ENABLED GetLookup(t, PathA))

\* the backend panicked under a call of the decorator while another thread
\* is inside SetLevel, with a Log registered and a default config set
C30_Witness ==
    /\ ev.kind = "throttle_panic"
    /\ \E t \in Threads : th[t].pc = "setlevel"
    /\ PathA \in DOMAIN named
    /\ nDefault >= 1

\* C31: SetLevel writes to no Config object a caller handed to SetDefault,
\* and the default config of the registry, the object and its contents, is
\* what it was before the SetLevel: the level is in the new snapshots only.
C31_SetLevelLeavesConfigsAlone ==
    [][(ev'.kind = "setlevel" /\ ev'.ok) =>
        /\ \A c \in CallerCfgIds : cfgs'[c] = cfgs[c]
        /\ defConfig' = defConfig
        /\ cfgs'[defConfig'] = cfgs[defConfig]]_vars

\* C32: the Log that Get returns for a path has the normalised path as its
\* name, and the root Log has the name "/", whatever the backend kind and
\* the level of its config.
C32_NameIsPath ==
    ev.kind = "get" =>
        lw[ev.log].name = IF Normalize(ev.path) = Empty THEN Slash ELSE Normalize(ev.path)

\* C33: SetLevel on a Log made with New, which the registry does not hold,
\* changes the level of that Log and leaves the root Log of the registry and
\* every registered Log as they are.
C33_SetLevelOnNewIsLocal ==
    [][(/\ ev'.kind = "setlevel" /\ ev'.ok
        /\ ev'.log # def
        /\ \A p \in DOMAIN named : named[p] # ev'.log) =>
            /\ lw'[ev'.log].level = ev'.level
            /\ lw'[def] = lw[def]
            /\ \A p \in DOMAIN named : lw'[named[p]] = lw[named[p]]]_vars

\* C34: the named map and the root Log reference are read inside the
\* exclusive section of the registry only: no thread is inside CloseLogFiles,
\* between its range over the named map and its read of the root Log, while
\* another thread is inside the section of Get or of SetDefault.
C34_RegistryReadsAreExclusive ==
    \A t \in Threads, x \in Threads :
        th[t].pc \in {"close_named", "close_named_call", "close_root", "close_root_call"}
            => th[x].pc \notin {"get_create", "setdefault_update"}

\* C35: SetLevel and a later Get commute. SetLevel, called after the Get,
\* gives its level to every registered path that starts with the name of
\* its Log; so a Get that creates the handle of a path whose nearest
\* registered ancestor (the root Log when none is registered) has the level
\* error, which in this specification only SetLevel gives, gives the new
\* handle that level too, whatever entries the default config has for the
\* path or for a path in between.
C35_SetLevelCommutesWithGet ==
    [][(ev'.kind = "get" /\ ev'.ok) =>
          LET ancs == RegisteredAncestors(ev'.path)
              anc  == IF ancs = {} THEN def ELSE named[Longest(ancs)]
          IN lw[anc].level = ErrorLevel => lw'[ev'.log].level = ErrorLevel]_vars

\* C36: the decorator filters and emits by the snapshot its owner has now:
\* the level guard lets a level through exactly when the owner's current
\* level enables it, and the level and the sink of the logger the decorator
\* calls are those of the owner's current snapshot, after SetLevel or
\* SetDefault changed them as before.
C36_DecoratorFollowsOwner ==
    (tl.made /\ tl.guarded) =>
        /\ \A L \in Levels : GuardPasses(L) <=> IsLevelEnabled(lw[tl.owner], L)
        /\ tl.logger.level = lw[tl.owner].level
        /\ tl.logger.handler = lw[tl.owner].handler

\* C37: the name SetLevel matches the registered paths against is the name
\* its Log has inside the exclusive section in which it changes them, so
\* that the Logs it changes are those a SetLevel run after every SetDefault
\* before it would change: no SetDefault takes effect between the read of
\* the name and the change.
C37_SetLevelNameIsCurrent ==
    [][(ev'.kind = "setlevel" /\ ev'.ok) =>
          /\ ev'.path = lw[ev'.log].name
          /\ \A p \in DOMAIN named :
                IF HasPrefix(p, lw[ev'.log].name)
                THEN lw'[named[p]].level = ev'.level
                ELSE named[p] # ev'.log => lw'[named[p]] = lw[named[p]]]_vars

\* C38: a Trace .. Fatal call loads the snapshot of its Log once, and the
\* level check, the thread-id and caller fields and the sink of the entry
\* are all those of that one snapshot, also when SetLevel or SetDefault
\* replaced the snapshot of the Log between the load and the send.
C38_OneSnapshotPerEmit ==
    /\ [][\A t \in Threads :
            (th[t].pc = "idle" /\ th'[t].pc = "emit") =>
                th'[t].snap = lw[th'[t].log]]_vars
    /\ [][ev'.kind = "emit" =>
            \E t \in Threads :
                /\ th[t].pc = "emit" /\ th'[t].pc = "idle"
                /\ LET s == th[t].snap
                       c == ConfigOf(s, cfgs)
                   IN /\ ev'.ok = (ev'.level = FatalLevel \/ s.level <= ev'.level)
                      /\ ev'.thr = s.level
                      /\ ev'.sink = s.handler
                      /\ ev'.gid = (c.GoRoutineID = "true")
                      /\ ev'.caller = (c.Caller = "true")]_vars

\* an entry was sent by the snapshot loaded before a SetLevel or a SetDefault
\* gave the Log another level and another sink
C38_Witness ==
    /\ ev.kind = "emit" /\ ev.ok
    /\ ev.thr # lw[ev.log].level
    /\ ev.sink # lw[ev.log].handler

\* C39: no two open rotation writers write to the same file: Logs whose
\* configs name the same file share one writer, siblings, a Log with another
\* backend kind than its ancestor and a Log re-derived by SetDefault
\* included.
C39_OneOpenWriterPerFile ==
    \A w1 \in DOMAIN ljacks, w2 \in DOMAIN ljacks :
        (/\ ~ljacks[w1].closed /\ ~ljacks[w2].closed
         /\ ljacks[w1].file = ljacks[w2].file) => w1 = w2

====
